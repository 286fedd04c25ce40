------------------------------ MODULE Protocol ------------------------------
(***************************************************************************)
(* The part of the wire protocol (protocol/src/index.ts) that the session  *)
(* life cycle depends on: the session statuses and the messages that hub   *)
(* and runner exchange about sessions.  Text, tool calls and previews are  *)
(* relayed without being interpreted and are left out; history messages    *)
(* are in module PendingHistory.                                           *)
(***************************************************************************)
EXTENDS Integers

CONSTANTS Session,    \* session ids minted by the hub's database
          SdkId,      \* conversation ids minted by the Claude Code SDK
          NoSdk,      \* "no SDK id": null, undefined or the empty string
          Run,        \* activations of runSession (slots, reused when free)
          MaxPrompt   \* bound on the permission prompts of one run

ASSUME NoSdkFresh == NoSdk \notin SdkId
ASSUME MaxPromptNat == MaxPrompt \in Nat

\* The runner numbers the prompts of a run from 1.
PromptNo == 1..MaxPrompt

Status == {"running", "idle", "waiting_for_input", "error"}

\* The statuses that tell a user that something is going on.
ActiveStatus == {"running", "waiting_for_input"}

MaybeSdk == SdkId \cup {NoSdk}

\* A resume map: the SDK conversation of every session that has one.
ResumeMap == [Session -> MaybeSdk]

-----------------------------------------------------------------------------
\* Hub to runner.

HubStartSession(s) == [type |-> "hub_start_session", session |-> s]

HubSendPrompt(s) == [type |-> "hub_send_prompt", session |-> s]

\* `asker' is the run whose prompt the user saw when answering.  The program
\* has no such field: it is there for the properties to talk about, and no
\* action reads it.
HubRespondToPrompt(s, p, r) ==
  [type |-> "hub_respond_to_prompt", session |-> s, prompt |-> p, asker |-> r]

HubRunnerResync(m) == [type |-> "hub_runner_resync", sessions |-> m]

HubToRunnerMsg ==
  [type : {"hub_start_session", "hub_send_prompt"}, session : Session]
    \cup [type : {"hub_respond_to_prompt"}, session : Session,
          prompt : PromptNo, asker : Run]
    \cup [type : {"hub_runner_resync"}, sessions : ResumeMap]

-----------------------------------------------------------------------------
\* Runner to hub.

UserPrompt(s, p, r) ==
  [type |-> "user_prompt", session |-> s, prompt |-> p, asker |-> r]

SessionStatus(s, st) ==
  [type |-> "session_status", session |-> s, status |-> st]

SessionDone(s, k) == [type |-> "session_done", session |-> s, sdk |-> k]

SessionError(s) == [type |-> "session_error", session |-> s]

RunnerToHubMsg ==
  [type : {"user_prompt"}, session : Session, prompt : PromptNo, asker : Run]
    \cup [type : {"session_status"}, session : Session, status : Status]
    \cup [type : {"session_done"}, session : Session, sdk : MaybeSdk]
    \cup [type : {"session_error"}, session : Session]
=============================================================================
