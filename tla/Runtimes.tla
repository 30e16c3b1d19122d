------------------------------ MODULE Runtimes ------------------------------
(***************************************************************************)
(* How an agent's turns are run: createExecutor()                          *)
(* (packages/agensis-cli/src/executor.mjs) takes the sandbox of an agent   *)
(* that asks for it, the native runtime of the agent's family, or ACP and  *)
(* what it falls back to; and how the answer is read from their output.    *)
(* The runtime is the configuration's and stays, and they share nothing,   *)
(* so a behaviour is of one of them.  So is the choice of a slot for every *)
(* turn, for a daemon that was given as many slots as it runs turns.       *)
(***************************************************************************)
EXTENDS AcpPool, CodexPool

CONSTANTS
  Boxes,                          \* of Sandbox
  Pieces, Tools,                  \* of AnswerStream
  MaxSessions, MaxUnread, NoJob,  \* of ClaudePool
  Conversations, MaxTurns         \* of SessionSlots: lanes and claims

VARIABLES
  family,     \* "claude", "codex", "other": no native runtime, or "sandbox"; "answer": the
              \* reader of their output; or "slots"
  doing, vm, handle, unkilled,
  source, parser, said, closed, asides, last, lines, half, end, wrote, heard, shown, steps,
  streamed, sawDelta, assistantText, closedText, finalResult, response,
  phase, waiting, signalled, outcome, sess, loaded, pooled, opened, ended, stream, active,
  draining, armed, prompts, out, billed,
  slotOf, taken, usedLast, claims, runsOn

Box == INSTANCE Sandbox
Stream == INSTANCE AnswerStream
Claude == INSTANCE ClaudePool WITH
  Jobs <- Turns, MaxOut <- MaxUnread,
  line <- waiting, aborted <- signalled, pool <- pooled, closed <- ended
Spread == INSTANCE SessionSlots WITH
  Lanes <- Conversations, Size <- MaxConcurrency, MaxClaims <- MaxTurns,
  byLane <- slotOf, busy <- taken, lastUsed <- usedLast, seq <- claims, held <- runsOn

ASSUME RuntimesAssumption ==
  /\ Claude!PoolAssumption
  /\ MaxTurns \in Nat /\ IsFiniteSet(Conversations)

boxVars == <<doing, vm, handle, unkilled>>

streamVars == <<source, parser, said, closed, asides, last, lines, half, end, wrote, heard, shown, steps,
                streamed, sawDelta, assistantText, closedText, finalResult, response>>

claudeVars == <<phase, waiting, signalled, outcome, sess, loaded, pooled, opened, ended, stream, active,
                draining, armed, prompts, out, billed>>

spreadVars == <<slotOf, taken, usedLast, claims, runsOn>>

runtimeVars == <<acpVars, codexVars, boxVars, streamVars, claudeVars, spreadVars, family>>

(* What is not looked at starts in one way.                                *)
RuntimesInit ==
  /\ family \in {"claude", "codex", "other", "sandbox", "answer", "slots"}
  /\ AcpInit /\ (family # "other" => fallback = "cli")
  /\ CodexInit /\ (family # "codex" => fingerprint = CHOOSE f \in Choices : TRUE)
  /\ Box!BoxInit
  /\ Stream!StreamInit /\ (family # "answer" => source = "acp" /\ ~ parser)
  /\ Claude!Init
  /\ Spread!Init

(* The runtime that was not chosen is never called.                        *)
RunsClaude ==
  family = "claude" /\ Claude!Next /\ UNCHANGED <<acpVars, codexVars, boxVars, streamVars, spreadVars>>

RunsCodex ==
  family = "codex" /\ CodexNext /\ UNCHANGED <<acpVars, boxVars, streamVars, claudeVars, spreadVars>>

RunsAcp ==
  family = "other" /\ AcpNext /\ UNCHANGED <<codexVars, boxVars, streamVars, claudeVars, spreadVars>>

RunsSandbox ==
  family = "sandbox" /\ Box!BoxNext /\ UNCHANGED <<acpVars, codexVars, streamVars, claudeVars, spreadVars>>

ReadsAnswer ==
  family = "answer" /\ Stream!StreamNext /\ UNCHANGED <<acpVars, codexVars, boxVars, claudeVars, spreadVars>>

TakesSlots ==
  family = "slots" /\ Spread!Next /\ UNCHANGED <<acpVars, codexVars, boxVars, streamVars, claudeVars>>

RuntimesNext ==
  /\ RunsClaude \/ RunsCodex \/ RunsAcp \/ RunsSandbox \/ ReadsAnswer \/ TakesSlots
  /\ UNCHANGED family

RuntimesSpec == RuntimesInit /\ [][RuntimesNext]_runtimeVars

FairRuntimes == RuntimesSpec /\ CodexFairness /\ AcpFairness /\ Claude!DeadlineFairness

-----------------------------------------------------------------------------
(* No child process is left behind: of CodexPool, no app-server            *)
(* (connectionExecutors.mjs:911-939); of Sandbox, no machine that a        *)
(* handle was returned for (executor.mjs:72-99).                           *)
NoOrphanChild == NoOrphanServer /\ Box!NoOrphanVM

(* Of AnswerStream: nothing is said twice or left out                      *)
(* (agensis.mjs:1882-1997).                                                *)
SaidOnce == Stream!SaidOnce

(* Of AnswerStream: the answer of a turn that ended well is read           *)
(* (agensis.mjs:1418-1444).                                                *)
AnswerIsRead == Stream!AnswerIsRead

(* Of ClaudePool: output, results and questions stay with their turn       *)
(* (connectionExecutors.mjs:364-372, 448-459, 660).                        *)
NoCrossTalk == Claude!NoCrossTalk

(* Of ClaudePool: a session the key forgot is closed                       *)
(* (connectionExecutors.mjs:333-352, 520-547).                             *)
NoOrphanSession == Claude!NoOrphanSession

(* Of ClaudePool: an idle timer ends unused sessions and no others         *)
(* (connectionExecutors.mjs:324-330, 602, 682).                            *)
IdleTimerRight == Claude!IdleTimerRight

(* Of ClaudePool: every call of run() resolves.                            *)
EveryRunAnswers == Claude!EveryRunAnswers

(* Of SessionSlots, with as many slots as turns, which is what             *)
(* --session-slots is for: no two running turns have one session           *)
(* (sessionSlots.mjs:5-11), whatever was evicted and bound anew before.    *)
SpreadTurns == Spread!OwnSession

(* Of SessionSlots: a conversation goes back to the session it has         *)
(* (sessionSlots.mjs:48-50).                                               *)
SpreadReturns == Spread!ReturnsToItsSession
=============================================================================
