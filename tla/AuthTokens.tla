----------------------------- MODULE AuthTokens -----------------------------
(***************************************************************************)
(* Authentication at the hub for one e-mail address (hub/src/auth.ts, the  *)
(* tables accounts and refresh_tokens of db.ts, routes/auth.ts and         *)
(* routes/panic.ts).  issueTokens makes a JWT and a refresh token at once: *)
(* a pair, numbered; both halves carry the pair's number.  A request is a  *)
(* call of one caller, that the hub takes through its own steps.           *)
(***************************************************************************)
EXTENDS Naturals, FiniteSets

CONSTANTS Caller,   \* what may have a request under way, one each
          MaxPair   \* bound on the pairs that can be issued

ASSUME MaxPairNat == MaxPair \in Nat \ {0}

VARIABLES
  account,  \* is the address in the table accounts
  rows,     \* pairs whose refresh token is in the table refresh_tokens
  overdue,  \* pairs whose refresh token is past its 30 days
  jwts,     \* pairs whose JWT is within its hour: stateless, nothing revokes it
  issued,   \* how many pairs were issued
  call,     \* call[c]: the request that caller c waits for
  heirs,    \* heirs[p]: pairs issued in exchange for p (read by properties only)
  gone      \* pairs that may be of no use to the client any more: revoked,
            \* overdue, or exchanged with the reply lost (properties only)

authVars == <<account, rows, overdue, jwts, issued, call, heirs, gone>>

Pair == 1..MaxPair
None == 0

NoCall == [op |-> "none", at |-> "none", arg |-> None, got |-> None]
Op == {"none", "register", "login", "refresh", "panic"}

\* "hub": sent, not yet looked at; "bcrypt": the handler awaits bcrypt;
\* the others: the reply is on its way.
Call == [op : Op, at : {"none", "hub", "bcrypt", "granted", "refused"},
         arg : Pair \cup {None}, got : Pair \cup {None}]

AuthTypeOK ==
  /\ account \in BOOLEAN
  /\ issued \in 0..MaxPair
  /\ rows \subseteq 1..issued
  /\ overdue \subseteq 1..issued
  /\ jwts \subseteq 1..issued
  /\ gone \subseteq 1..issued
  /\ call \in [Caller -> Call]
  /\ heirs \in [Pair -> Nat]

AuthInit ==
  /\ account = FALSE
  /\ rows = {}
  /\ overdue = {}
  /\ jwts = {}
  /\ issued = 0
  /\ call = [c \in Caller |-> NoCall]
  /\ heirs = [p \in Pair |-> 0]
  /\ gone = {}

\* Pairs that are issued, or will be for a call or for an expired JWT: what
\* MaxPair bounds.
Committed ==
  issued + Cardinality({c \in Caller : call[c].op \in {"register", "login"}
                                         /\ call[c].at \in {"hub", "bcrypt"}})
         + Cardinality(rows \ jwts)

Refuse(c) == call' = [call EXCEPT ![c].at = "refused"]

\* A bug: the row gets the number of the pair before.
GrantsOffByOne(c, kept) ==
  /\ issued < MaxPair
  /\ issued' = issued + 1
  /\ rows' = kept \cup {issued}
  /\ jwts' = jwts \cup {issued + 1}
  /\ call' = [call EXCEPT ![c].at = "granted", ![c].got = issued + 1]

\* issueTokens; kept are the rows that the handler left in the table.
Grant(c, kept) ==
  /\ issued < MaxPair
  /\ issued' = issued + 1
  /\ rows' = kept \cup {issued + 1}
  /\ jwts' = jwts \cup {issued + 1}
  /\ call' = [call EXCEPT ![c].at = "granted", ![c].got = issued + 1]

\* register up to its await of bcrypt.hash: an address in use is refused, 409.
HubLooksUp(c) ==
  /\ call[c].at = "hub"
  /\ call[c].op = "register"
  /\ IF account
       THEN Refuse(c)
       ELSE call' = [call EXCEPT ![c].at = "bcrypt"]
  /\ UNCHANGED <<account, rows, overdue, jwts, issued, heirs, gone>>

\* After it: the insert fails on the UNIQUE address if another registration
\* came first, and the route answers 401.
HubRegisters(c) ==
  /\ call[c].at = "bcrypt"
  /\ IF account
       THEN Refuse(c) /\ UNCHANGED <<account, rows, jwts, issued>>
       ELSE account' = TRUE /\ Grant(c, rows)
  /\ UNCHANGED <<overdue, heirs, gone>>

\* login: an unknown address or a wrong password is refused.  One step: what it
\* reads before its await of bcrypt.compare, the account, never changes.
HubLogsIn(c) ==
  /\ call[c].at = "hub"
  /\ call[c].op = "login"
  /\ \/ Refuse(c) /\ UNCHANGED <<rows, jwts, issued>>
     \/ account /\ Grant(c, rows)
  /\ UNCHANGED <<account, overdue, heirs, gone>>

\* A bug: the refresh token is left in the table.
RefreshesWithoutDelete(c) ==
  /\ call[c].at = "hub"
  /\ call[c].op = "refresh"
  /\ IF call[c].arg \in rows \ overdue
       THEN /\ Grant(c, rows)
            /\ heirs' = [heirs EXCEPT ![call[c].arg] = @ + 1]
       ELSE Refuse(c) /\ UNCHANGED <<rows, jwts, issued, heirs>>
  /\ UNCHANGED <<account, overdue, gone>>

\* refresh has no await: the look-up, the delete and the insert are one step.
HubRefreshes(c) ==
  LET p == call[c].arg IN
  /\ call[c].at = "hub"
  /\ call[c].op = "refresh"
  /\ \/ /\ p \notin rows
        /\ Refuse(c)
        /\ UNCHANGED <<rows, jwts, issued, heirs>>
     \/ /\ p \in rows \cap overdue
        /\ rows' = rows \ {p}
        /\ Refuse(c)
        /\ UNCHANGED <<jwts, issued, heirs>>
     \/ /\ p \in rows \ overdue
        /\ Grant(c, rows \ {p})
        /\ heirs' = [heirs EXCEPT ![p] = @ + 1]
  /\ UNCHANGED <<account, overdue, gone>>

\* deleteRefreshTokensForAccount, in panicAccount.
RevokeAll ==
  /\ rows' = {}
  /\ gone' = gone \cup rows
  /\ UNCHANGED <<account, overdue, jwts, issued, heirs>>

\* Another device registers the address.
RegistersElsewhere ==
  /\ ~account
  /\ account' = TRUE
  /\ UNCHANGED <<rows, overdue, jwts, issued, call, heirs, gone>>

JwtExpires(p) ==
  /\ p \in jwts
  /\ Committed < MaxPair
  /\ jwts' = jwts \ {p}
  /\ UNCHANGED <<account, rows, overdue, issued, call, heirs, gone>>

RefreshExpires(p) ==
  /\ p \in rows \ overdue
  /\ overdue' = overdue \cup {p}
  /\ gone' = gone \cup {p}
  /\ UNCHANGED <<account, rows, jwts, issued, call, heirs>>

HubStep(c) ==
  \/ HubLooksUp(c)
  \/ HubRegisters(c)
  \/ HubLogsIn(c)
  \/ HubRefreshes(c)
=============================================================================
