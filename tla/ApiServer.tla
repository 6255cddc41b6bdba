------------------------------- MODULE ApiServer -------------------------------
(***************************************************************************)
(* The HTTP API of app/api/server.py: every request runs on a thread of    *)
(* its own, loads a session from the history, works on its copy and saves  *)
(* the copy as a whole.  Nothing keeps two requests on one session apart.  *)
(*                                                                         *)
(* A request is observable where it loads, where the PC is changed and     *)
(* where it saves; in between it works on a private copy.  Requests that   *)
(* are refused (404, 403, 400) and reads change nothing and are left out.  *)
(***************************************************************************)
EXTENDS Session

CONSTANTS
    Clients,      \* the requests that can be served at the same time
    MaxChanges,   \* bound of the model: changes to the PC for one session
    MaxRepeats,   \* bound of the model: verifications of one session
    Environment   \* what goes on around a request

ASSUME ApiAssumption ==
    /\ MaxChanges \in Nat /\ MaxRepeats \in Nat
    /\ Environment \subseteq {"concurrent",  \* requests on a session overlap
                              "save_fails",  \* SQLite refuses a write
                              "crash"}       \* the server dies and is restarted

VARIABLES
    history,    \* the sessions table
    requests,   \* what each request is doing, with its copy of the session
    log         \* external: what was really done to the PC for each session

vars == <<history, requests, log>>

Phases == {"diagnose", "execute", "verify", "reverify"}

Request == [at : Phases, fix : Fixes \cup {NoFix}, session : Session]

Idle == [at |-> "idle", fix |-> NoFix, session |-> NoSession]

NoRow == NoSession

-----------------------------------------------------------------------------
(* Helpers                                                                 *)

Busy(c) == requests[c] # Idle

Serves(sid) == \E c \in Clients : Busy(c) /\ requests[c].session.id = sid

Known(sid) == history[sid] # NoRow

(* HistoryStore.load_session, whose repair of results concerns rows written *)
(* by older versions only; the environment decides whether clients wait for *)
(* the answer to their last request on a session.                           *)
MayLoad(c, sid) ==
    /\ ~Busy(c)
    /\ Known(sid)
    /\ "concurrent" \in Environment \/ ~Serves(sid)

Serve(c, phase, fix, s) ==
    requests' = [requests EXCEPT ![c] = [at |-> phase, fix |-> fix, session |-> s]]

Answer(c) == requests' = [requests EXCEPT ![c] = Idle]

(* The agent swallows a failed write, the verify endpoint answers 500: in    *)
(* both cases the row stays as it was and the copy is gone.                  *)
Save(s) ==
    \/ history' = [history EXCEPT ![s.id] = s]
    \/ "save_fails" \in Environment /\ UNCHANGED history

-----------------------------------------------------------------------------
(* POST /api/diagnose: a new session, with the checks of Agent.diagnose and  *)
(* no cancel event.                                                          *)

Diagnose(c, sid) ==
    /\ ~Busy(c)
    /\ ~Known(sid) /\ ~Serves(sid) /\ log[sid] = <<>>
    /\ Serve(c, "diagnose", NoFix, Diagnosing(NewSession(sid)))
    /\ UNCHANGED <<history, log>>

(* The checks and follow-ups that were run, one after the other. *)
Measured(s, completed, failed) ==
    [s EXCEPT !.checks = [t \in Tools |-> CASE t \in completed -> "completed"
                                            [] t \in failed    -> "failed"
                                            [] OTHER           -> @[t]],
              !.diagnostics = completed \cup failed]

Diagnosed(c, healthy) ==
    LET s == requests[c].session
    IN /\ requests[c].at = "diagnose"
       /\ \E ran \in AtMost(MaxSteps, Tools) \ {{}} : \E failed \in SUBSET ran :
             \E proposals \in ProposalLists(healthy, {}) :
                Save(Recommended(Analyzed(Measured(s, ran \ failed, failed), {}),
                                 proposals, healthy))
       /\ Answer(c)
       /\ UNCHANGED log

-----------------------------------------------------------------------------
(* POST /api/remediation/execute with "approved": true                       *)

(* Faulty variant: any registered fix may be executed. *)
AnyOffered(s) == Fixes

(* The fixes a session offers: execute looks the tool up in the proposals. *)
Offered(s) == ToSet(s.proposals)

(* Agent.remediate_and_verify checks the attempts the copy knows of. *)
Execute(c, sid, fix) ==
    /\ MayLoad(c, sid)
    /\ Len(log[sid]) < MaxChanges
    /\ fix \in Offered(history[sid])
    /\ AttemptAllowed(history[sid])
    /\ Serve(c, "execute", fix, Approved(history[sid]))
    /\ UNCHANGED <<history, log>>

ExecuteFix(c, success) ==
    LET s == requests[c].session
        fix == requests[c].fix
    IN /\ requests[c].at = "execute"
       /\ log' = [log EXCEPT ![s.id] = Append(@, [tool |-> fix, success |-> success])]
       /\ Serve(c, "verify", fix, FixRecorded(s, fix, success))
       /\ UNCHANGED history

VerifyFix(c) ==
    /\ requests[c].at = "verify"
    /\ \E v \in Verifications(requests[c].session) :
            Save(Verified(requests[c].session, v))
    /\ Answer(c)
    /\ UNCHANGED log

-----------------------------------------------------------------------------
(* POST /api/verify: measures again for the last fix of the session, and     *)
(* writes the status but not the result.                                     *)

VerifyAgain(c, sid) ==
    /\ MayLoad(c, sid)
    /\ history[sid].remediations # <<>>
    /\ Last(history[sid].remediations).tool \in Offered(history[sid])
    /\ Len(history[sid].verifications) < MaxRepeats
    /\ Serve(c, "reverify", NoFix, history[sid])
    /\ UNCHANGED <<history, log>>

Reverified(s, v) ==
    [s EXCEPT !.verifications = Append(@, v), !.final_outcome = "verification",
              !.status = IF v.improved THEN "resolved" ELSE "unresolved"]

VerifiedAgain(c) ==
    /\ requests[c].at = "reverify"
    /\ \E v \in Verifications(requests[c].session) :
            Save(Reverified(requests[c].session, v))
    /\ Answer(c)
    /\ UNCHANGED log

-----------------------------------------------------------------------------

(* The requests under way are gone; the PC and the database are not. *)
Restart ==
    /\ "crash" \in Environment
    /\ requests' = [c \in Clients |-> Idle]
    /\ UNCHANGED <<history, log>>

Init ==
    /\ history = [sid \in SessionIds |-> NoRow]
    /\ requests = [c \in Clients |-> Idle]
    /\ log = [sid \in SessionIds |-> <<>>]

Next ==
    \/ \E c \in Clients, sid \in SessionIds : Diagnose(c, sid)
    \/ \E c \in Clients, healthy \in BOOLEAN : Diagnosed(c, healthy)
    \/ \E c \in Clients, sid \in SessionIds, fix \in Fixes : Execute(c, sid, fix)
    \/ \E c \in Clients, success \in BOOLEAN : ExecuteFix(c, success)
    \/ \E c \in Clients : VerifyFix(c)
    \/ \E c \in Clients, sid \in SessionIds : VerifyAgain(c, sid)
    \/ \E c \in Clients : VerifiedAgain(c)
    \/ Restart

Spec == Init /\ [][Next]_vars
-----------------------------------------------------------------------------
(* Properties                                                              *)

(* Every variable has its type. *)
TypeOK ==
    /\ history \in [SessionIds -> Session]
    /\ requests \in [Clients -> Request \cup {Idle}]
    /\ log \in [SessionIds -> Seq(Remediation)]

(* Whatever overlaps, fails or is restarted, the PC is changed for a        *)
(* session only by a fix its diagnosis proposed: no save of a stale copy    *)
(* can bring in other proposals.                                            *)
OnlyOffered ==
    [][\A sid \in SessionIds : log'[sid] # log[sid] =>
          Last(log'[sid]).tool \in ToSet(history[sid].proposals)]_vars

(* What is claimed was done, in that order, and perhaps more was. *)
Realized(claimed, done) ==
    \E at \in [DOMAIN claimed -> DOMAIN done] :
        /\ \A i, j \in DOMAIN claimed : i < j => at[i] < at[j]
        /\ \A i \in DOMAIN claimed : claimed[i] = done[at[i]]

(* The saved remediations, in their order, are among the changes that were  *)
(* made: overlapping requests may lose one another's records, but none of   *)
(* them makes History claim a change that was not made.                     *)
RecordRealized ==
    \A sid \in SessionIds : Realized(history[sid].remediations, log[sid])

(* When each client waits for its answer, and no write fails, what History  *)
(* holds of a session that is not being served is all that was done for it. *)
RecordComplete ==
    \A sid \in SessionIds :
        ~Serves(sid) => history[sid].remediations = log[sid]

(* A session changes the PC at most MaxAttempts times. *)
AttemptsBounded == \A sid \in SessionIds : Len(log[sid]) <= MaxAttempts

-----------------------------------------------------------------------------
(* Invariants for the proofs                                               *)

(* Why OnlyOffered holds: a request that diagnoses has its session for      *)
(* itself, any other works on a copy with the proposals of the row.         *)
OwnedBy(c) ==
    LET r == requests[c]
        sid == r.session.id
    IN /\ sid \in SessionIds
       /\ r.at = "diagnose" =>
             ~Known(sid) /\ \A d \in Clients :
                              Busy(d) /\ requests[d].session.id = sid => d = c
       /\ r.at # "diagnose" =>
             Known(sid) /\ r.session.proposals = history[sid].proposals
       /\ r.at = "execute" => r.fix \in Fixes /\ r.fix \in ToSet(r.session.proposals)
       /\ r.at \in {"verify", "reverify"} => r.session.remediations # <<>>

Owned == \A c \in Clients : Busy(c) => OwnedBy(c)

Keyed == \A sid \in SessionIds : Known(sid) => history[sid].id = sid

Consistent == TypeOK /\ Keyed /\ Owned

(* Why RecordRealized holds: no copy claims more than was done either. *)
CopiesRealized ==
    \A c \in Clients : Busy(c) =>
        Realized(requests[c].session.remediations, log[requests[c].session.id])

(* Why RecordComplete holds when nothing overlaps: the only copy of a       *)
(* session knows all that was done, and a fix is within the bound.          *)
Alone ==
    \A c, d \in Clients :
        Busy(c) /\ Busy(d) /\ requests[c].session.id = requests[d].session.id => c = d

CopyComplete ==
    \A c \in Clients : Busy(c) =>
        /\ requests[c].session.remediations = log[requests[c].session.id]
        /\ requests[c].at = "execute" => AttemptAllowed(requests[c].session)

Serial == Alone /\ CopyComplete /\ RecordComplete /\ AttemptsBounded
=============================================================================
