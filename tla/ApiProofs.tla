------------------------------- MODULE ApiProofs -------------------------------
(***************************************************************************)
(* The API changes the PC only by fixes a diagnosis proposed, whatever     *)
(* requests overlap, fail or are lost in a restart; and when none does,    *)
(* History is complete and the attempts are bounded.                       *)
(***************************************************************************)
EXTENDS ApiServer, SessionProofs

-----------------------------------------------------------------------------
(* The session operators and the proposals *)

(* Approving, recording a fix and verifying it leave the proposals alone. *)
LEMMA ProposalsStay ==
    ASSUME NEW s \in Session, NEW fix \in Fixes, NEW success \in BOOLEAN,
           NEW v \in Verification
    PROVE  /\ Approved(s).proposals = s.proposals
           /\ FixRecorded(s, fix, success).proposals = s.proposals
           /\ Verified(s, v).proposals = s.proposals
<1>1. Approved(s).proposals = s.proposals
  BY DEF Approved, Session
<1>2. FixRecorded(s, fix, success).proposals = s.proposals
  BY DEF FixRecorded, Session
<1>3. Verified(s, v).proposals = s.proposals
  BY DEF Verified, Session
<1> QED
  BY <1>1, <1>2, <1>3

(* The measurements of a diagnosis keep a session a session. *)
LEMMA MeasuredFacts ==
    ASSUME NEW s \in Session, NEW completed \in SUBSET Tools, NEW failed \in SUBSET Tools
    PROVE  SameSession(s, Measured(s, completed, failed))
<1> DEFINE status(t) == CASE t \in completed -> "completed"
                          [] t \in failed    -> "failed"
                          [] OTHER           -> s.checks[t]
<1>1. ASSUME NEW t \in Tools PROVE status(t) \in CheckStatuses
  <2>1. s.checks[t] \in CheckStatuses
    BY DEF Session
  <2> QED
    BY <2>1 DEF CheckStatuses
<1>2. Measured(s, completed, failed) =
        [s EXCEPT !.checks = [t \in Tools |-> status(t)],
                  !.diagnostics = completed \cup failed]
  BY DEF Measured, Session
<1> HIDE DEF status
<1>3. [t \in Tools |-> status(t)] \in [Tools -> CheckStatuses]
  BY <1>1
<1> QED
  BY <1>2, <1>3 DEF SameSession, Session

(* The verify endpoint adds a verification, and nothing to the fixes. *)
LEMMA ReverifiedFacts ==
    ASSUME NEW s \in Session, NEW v \in Verification
    PROVE  SameSession(s, Reverified(s, v)) /\ Reverified(s, v).proposals = s.proposals
<1>1. Append(s.verifications, v) \in Seq(Verification)
  BY DEF Session
<1>2. Reverified(s, v) \in Session
  BY <1>1 DEF Reverified, Session, Statuses, Outcomes
<1> QED
  BY <1>2 DEF Reverified, SameSession, Session

-----------------------------------------------------------------------------
(* Consistent is inductive *)

(* A request under way has a phase and a session; an idle client none. *)
LEMMA BusyFacts ==
    ASSUME TypeOK, NEW c \in Clients
    PROVE  /\ Busy(c) => requests[c] \in Request
           /\ Busy(c) <=> requests[c].at \in Phases
<1>1. requests[c] \in Request \cup {Idle}
  BY DEF TypeOK
<1>2. Idle.at \notin Phases
  BY DEF Idle, Phases
<1> QED
  BY <1>1, <1>2 DEF Busy, Request

(* A request that loads a session, or goes on with its copy of one. *)
LEMMA ServeConsistent ==
    ASSUME Consistent, NEW c \in Clients, NEW r \in Request,
           requests' = [requests EXCEPT ![c] = r], history' = history,
           log' \in [SessionIds -> Seq(Remediation)],
           r.session.id \in SessionIds,
           r.at = "diagnose" => ~Known(r.session.id) /\ ~Serves(r.session.id),
           r.at # "diagnose" => /\ Known(r.session.id)
                                /\ r.session.proposals = history[r.session.id].proposals,
           r.at = "execute" => r.fix \in Fixes /\ r.fix \in ToSet(r.session.proposals),
           r.at \in {"verify", "reverify"} => r.session.remediations # <<>>
    PROVE  Consistent'
<1>1. TypeOK'
  BY DEF Consistent, TypeOK
<1>2. Keyed'
  BY DEF Consistent, Keyed, Known
<1>3. ASSUME NEW d \in Clients, d # c
      PROVE  requests'[d] = requests[d] /\ (Busy(d)' <=> Busy(d))
  BY <1>3 DEF Consistent, TypeOK, Busy
<1>4. requests'[c] = r
  BY DEF Consistent, TypeOK
<1>5. \A sid : Known(sid)' <=> Known(sid)
  BY DEF Known
<1>6. ASSUME NEW d \in Clients, Busy(d)',
             requests'[d].at = "diagnose",
             NEW e \in Clients, Busy(e)',
             requests'[e].session.id = requests'[d].session.id
      PROVE  e = d
  <2>1. CASE d = c
    BY <1>3, <1>4, <1>6, <2>1 DEF Serves
  <2>2. CASE d # c /\ e = c
    <3>1. ~Known(requests[d].session.id)
      BY <1>3, <1>6, <2>2 DEF Consistent, Owned, OwnedBy
    <3>2. r.session.id = requests[d].session.id /\ Serves(r.session.id)
      BY <1>3, <1>4, <1>6, <2>2 DEF Serves
    <3> QED
      BY <3>1, <3>2
  <2>3. CASE d # c /\ e # c
    BY <1>3, <1>6, <2>3 DEF Consistent, Owned, OwnedBy
  <2> QED
    BY <2>1, <2>2, <2>3
<1>7. Owned'
  <2> SUFFICES ASSUME NEW d \in Clients, Busy(d)' PROVE OwnedBy(d)'
    BY DEF Owned
  <2>1. CASE d = c
    BY <1>4, <1>5, <1>6, <2>1 DEF OwnedBy
  <2>2. CASE d # c
    BY <1>3, <1>5, <1>6, <2>2 DEF Consistent, Owned, OwnedBy
  <2> QED
    BY <2>1, <2>2
<1> QED
  BY <1>1, <1>2, <1>7 DEF Consistent

(* A request that saves its copy, or fails to, and is answered. *)
LEMMA AnswerConsistent ==
    ASSUME Consistent, NEW c \in Clients, Busy(c), NEW s \in Session,
           s.id = requests[c].session.id,
           requests[c].at # "diagnose" => s.proposals = requests[c].session.proposals,
           Save(s), Answer(c), UNCHANGED log
    PROVE  Consistent'
<1> DEFINE sid == requests[c].session.id
<1>1. sid \in SessionIds
  BY DEF Consistent, Owned, OwnedBy
<1>2. requests' = [requests EXCEPT ![c] = Idle]
  BY DEF Answer
<1>3. history' = [history EXCEPT ![sid] = s] \/ history' = history
  BY DEF Save
<1>4. TypeOK'
  BY <1>1, <1>2, <1>3 DEF Consistent, TypeOK
<1>5. s # NoRow
  BY <1>1, SessionAssumption DEF NoRow, NoSession, NewSession
<1>6. \A other \in SessionIds \ {sid} : history'[other] = history[other]
  BY <1>3 DEF Consistent, TypeOK
<1>7. history'[sid] = s \/ history'[sid] = history[sid]
  BY <1>1, <1>3 DEF Consistent, TypeOK
<1>8. Keyed'
  BY <1>6, <1>7 DEF Consistent, Keyed, Known
<1>9. ASSUME NEW d \in Clients, Busy(d)'
      PROVE  d # c /\ requests'[d] = requests[d] /\ Busy(d)
  BY <1>2, <1>9 DEF Consistent, TypeOK, Busy
<1>10. Owned'
  <2> SUFFICES ASSUME NEW d \in Clients, Busy(d)' PROVE OwnedBy(d)'
    BY DEF Owned
  <2> DEFINE q == requests[d]
             id == q.session.id
  <2>1. d # c /\ requests'[d] = q /\ Busy(d) /\ id \in SessionIds
    BY <1>9 DEF Consistent, Owned, OwnedBy
  <2>2. q.at = "execute" => q.fix \in Fixes /\ q.fix \in ToSet(q.session.proposals)
    BY <2>1 DEF Consistent, Owned, OwnedBy
  <2>3. q.at \in {"verify", "reverify"} => q.session.remediations # <<>>
    BY <2>1 DEF Consistent, Owned, OwnedBy
  <2>4. ASSUME q.at = "diagnose"
        PROVE  ~Known(id)' /\ \A e \in Clients :
                          Busy(e)' /\ requests'[e].session.id = id => e = d
    <3>1. ~Known(id) /\ id # sid
      BY <2>1, <2>4 DEF Consistent, Owned, OwnedBy
    <3>2. ~Known(id)'
      BY <1>6, <2>1, <3>1 DEF Known
    <3>3. ASSUME NEW e \in Clients, Busy(e)', requests'[e].session.id = id
          PROVE  e = d
      <4>1. Busy(e) /\ requests[e].session.id = id
        BY <1>9, <3>3
      <4> QED
        BY <2>1, <2>4, <4>1 DEF Consistent, Owned, OwnedBy
    <3> QED
      BY <3>2, <3>3
  <2>5. ASSUME q.at # "diagnose"
        PROVE  Known(id)' /\ q.session.proposals = history'[id].proposals
    <3>1. Known(id) /\ q.session.proposals = history[id].proposals
      BY <2>1, <2>5 DEF Consistent, Owned, OwnedBy
    <3>2. CASE id # sid
      BY <1>6, <2>1, <3>1, <3>2 DEF Known
    <3>3. CASE id = sid
      <4>1. requests[c].at # "diagnose"
        BY <3>1, <3>3 DEF Consistent, Owned, OwnedBy
      <4>2. s.proposals = history[sid].proposals
        BY <4>1 DEF Consistent, Owned, OwnedBy
      <4> QED
        BY <1>5, <1>7, <2>1, <3>1, <3>3, <4>2 DEF Known
    <3> QED
      BY <3>2, <3>3
  <2> QED
    BY <2>1, <2>2, <2>3, <2>4, <2>5 DEF OwnedBy
<1> QED
  BY <1>4, <1>8, <1>10 DEF Consistent

(* Nothing is served, saved or done at first. *)
LEMMA InitConsistent == Init => Consistent
<1> SUFFICES ASSUME Init PROVE Consistent
  OBVIOUS
<1>1. NoRow \in Session
  BY NewSessionFacts DEF NoRow, NoSession
<1>2. TypeOK
  BY <1>1 DEF Init, TypeOK
<1>3. \A c \in Clients : ~Busy(c)
  BY DEF Init, Busy
<1> QED
  BY <1>2, <1>3 DEF Init, Consistent, Keyed, Owned, Known

(* A request that saved its copy had it for a reason. *)
LEMMA RequestFacts ==
    ASSUME Consistent, NEW c \in Clients, requests[c].at \in Phases
    PROVE  Busy(c) /\ OwnedBy(c) /\ requests[c] \in Request
<1>1. Busy(c) /\ requests[c] \in Request
  BY BusyFacts DEF Consistent
<1> QED
  BY <1>1 DEF Consistent, Owned

(* A row that is there has its key as its identity. *)
LEMMA RowFacts ==
    ASSUME Consistent, NEW sid \in SessionIds, Known(sid)
    PROVE  history[sid] \in Session /\ history[sid].id = sid
BY DEF Consistent, TypeOK, Keyed

(* A new request for a diagnosis. *)
LEMMA DiagnoseStep ==
    ASSUME Consistent, NEW c \in Clients, NEW sid \in SessionIds, Diagnose(c, sid)
    PROVE  Consistent'
<1> DEFINE s == Diagnosing(NewSession(sid))
           r == [at |-> "diagnose", fix |-> NoFix, session |-> s]
<1>1. s \in Session /\ s.id = sid
  BY NewSessionFacts, DiagnosingFacts DEF SameSession
<1>2. requests' = [requests EXCEPT ![c] = r] /\ UNCHANGED <<history, log>>
  BY DEF Diagnose, Serve
<1> HIDE DEF s
<1>3. r \in Request
  BY <1>1 DEF Request, Phases
<1>4. log' \in [SessionIds -> Seq(Remediation)]
  BY <1>2 DEF Consistent, TypeOK
<1>5. r.at = "diagnose" /\ r.session.id = sid
  BY <1>1
<1>6. ~Known(sid) /\ ~Serves(sid)
  BY DEF Diagnose
<1> HIDE DEF r
<1> QED
  BY <1>2, <1>3, <1>4, <1>5, <1>6, ServeConsistent

(* The end of a diagnosis. *)
LEMMA DiagnosedStep ==
    ASSUME Consistent, NEW c \in Clients, NEW healthy \in BOOLEAN, Diagnosed(c, healthy)
    PROVE  Consistent'
<1> DEFINE s == requests[c].session
<1>1. Busy(c) /\ s \in Session /\ requests[c].at = "diagnose"
  BY RequestFacts DEF Diagnosed, Phases, Request
<1>2. PICK ran \in AtMost(MaxSteps, Tools) \ {{}} : \E failed \in SUBSET ran :
             \E proposals \in ProposalLists(healthy, {}) :
                Save(Recommended(Analyzed(Measured(s, ran \ failed, failed), {}),
                                 proposals, healthy))
  BY DEF Diagnosed
<1>3. PICK failed \in SUBSET ran, proposals \in ProposalLists(healthy, {}) :
                Save(Recommended(Analyzed(Measured(s, ran \ failed, failed), {}),
                                 proposals, healthy))
  BY <1>2
<1> DEFINE measured == Measured(s, ran \ failed, failed)
           analyzed == Analyzed(measured, {})
           final    == Recommended(analyzed, proposals, healthy)
<1>4. ran \subseteq Tools
  BY DEF AtMost
<1>5. SameSession(s, measured)
  BY <1>1, <1>4, MeasuredFacts
<1> HIDE DEF measured
<1>6. SameSession(measured, analyzed)
  BY <1>5, AnalyzedFacts DEF SameSession
<1> HIDE DEF analyzed
<1>7. proposals \in Seq(Fixes)
  BY ProposalListsFacts
<1>8. SameSession(analyzed, final)
  BY <1>6, <1>7, RecommendedFacts DEF SameSession
<1>9. Save(final)
  BY <1>3 DEF measured, analyzed
<1> HIDE DEF final
<1>10. final \in Session /\ final.id = requests[c].session.id
  BY <1>5, <1>6, <1>8 DEF SameSession
<1>11. Answer(c) /\ UNCHANGED log
  BY DEF Diagnosed
<1> QED
  BY <1>1, <1>9, <1>10, <1>11, AnswerConsistent

(* A request that executes a fix of the row it loaded. *)
LEMMA ExecuteStep ==
    ASSUME Consistent, NEW c \in Clients, NEW sid \in SessionIds, NEW fix \in Fixes,
           Execute(c, sid, fix)
    PROVE  Consistent'
<1> DEFINE s == Approved(history[sid])
           r == [at |-> "execute", fix |-> fix, session |-> s]
<1>1. Known(sid) /\ fix \in Offered(history[sid])
  BY DEF Execute, MayLoad
<1>2. s \in Session /\ s.id = sid
  BY <1>1, RowFacts, ApprovedFacts DEF SameSession
<1>3. s.proposals = history[sid].proposals
  BY <1>1, RowFacts DEF Approved, Session
<1>4. requests' = [requests EXCEPT ![c] = r] /\ UNCHANGED <<history, log>>
  BY DEF Execute, Serve
<1> HIDE DEF s
<1>5. r \in Request
  BY <1>2 DEF Request, Phases
<1>6. r.at = "execute" /\ r.fix = fix /\ r.session = s
  OBVIOUS
<1>7. log' \in [SessionIds -> Seq(Remediation)]
  BY <1>4 DEF Consistent, TypeOK
<1>8. fix \in ToSet(s.proposals)
  BY <1>1, <1>3 DEF Offered
<1> HIDE DEF r
<1> QED
  BY <1>1, <1>2, <1>3, <1>4, <1>5, <1>6, <1>7, <1>8, ServeConsistent

(* The fix runs and is added to the copy. *)
LEMMA ExecuteFixStep ==
    ASSUME Consistent, NEW c \in Clients, NEW success \in BOOLEAN, ExecuteFix(c, success)
    PROVE  Consistent'
<1> DEFINE s   == requests[c].session
           fix == requests[c].fix
           n   == FixRecorded(s, fix, success)
           r   == [at |-> "verify", fix |-> fix, session |-> n]
<1>1. /\ s \in Session /\ fix \in Fixes /\ OwnedBy(c)
      /\ requests[c].at = "execute"
  BY RequestFacts DEF ExecuteFix, Phases, Request, OwnedBy
<1>2. /\ n \in Session /\ n.id = s.id
      /\ n.remediations = Append(s.remediations, [tool |-> fix, success |-> success])
  BY <1>1, FixRecordedFacts
<1>3. n.proposals = s.proposals
  BY <1>1 DEF FixRecorded, Session
<1>4. n.remediations # <<>>
  <2>1. [tool |-> fix, success |-> success] \in Remediation /\ s.remediations \in Seq(Remediation)
    BY <1>1 DEF Remediation, Session
  <2> QED
    BY <1>2, <2>1
<1>5. requests' = [requests EXCEPT ![c] = r] /\ history' = history
  BY DEF ExecuteFix, Serve
<1>6. log' \in [SessionIds -> Seq(Remediation)]
  <2> DEFINE change == [tool |-> fix, success |-> success]
  <2>1. change \in Remediation
    BY <1>1 DEF Remediation
  <2>2. log' = [log EXCEPT ![s.id] = Append(@, change)]
    BY DEF ExecuteFix
  <2> HIDE DEF change
  <2>3. log \in [SessionIds -> Seq(Remediation)]
    BY DEF Consistent, TypeOK
  <2>4. s.id \in SessionIds
    BY <1>1 DEF OwnedBy
  <2>5. Append(log[s.id], change) \in Seq(Remediation)
    BY <2>1, <2>3, <2>4
  <2> QED
    BY <2>2, <2>3, <2>5
<1> HIDE DEF n
<1>7. r \in Request
  BY <1>1, <1>2 DEF Request, Phases
<1>8. r.at = "verify" /\ r.session = n
  OBVIOUS
<1>9. /\ n.id \in SessionIds /\ Known(n.id)
      /\ n.proposals = history[n.id].proposals
  BY <1>1, <1>2, <1>3 DEF OwnedBy
<1> HIDE DEF r
<1> QED
  BY <1>4, <1>5, <1>6, <1>7, <1>8, <1>9, ServeConsistent

(* The verification of the fix, and the save that ends the request. *)
LEMMA VerifyFixStep ==
    ASSUME Consistent, NEW c \in Clients, VerifyFix(c)
    PROVE  Consistent'
<1> DEFINE s == requests[c].session
<1>1. Busy(c) /\ s \in Session /\ requests[c].at = "verify" /\ s.remediations # <<>>
  BY RequestFacts DEF VerifyFix, Phases, Request, OwnedBy
<1>2. PICK v \in Verifications(s) : Save(Verified(s, v))
  BY DEF VerifyFix
<1>3. v \in Verification
  BY <1>1, VerificationsFacts
<1> DEFINE n == Verified(s, v)
<1>4. n \in Session /\ n.id = s.id
  BY <1>1, <1>3, VerifiedFacts DEF SameSession
<1>5. n.proposals = s.proposals
  BY <1>1 DEF Verified, Session
<1>6. Save(n) /\ Answer(c) /\ UNCHANGED log
  BY <1>2 DEF VerifyFix
<1> HIDE DEF n
<1> QED
  BY <1>1, <1>4, <1>5, <1>6, AnswerConsistent

(* A request that verifies the last fix of the row it loaded again. *)
LEMMA VerifyAgainStep ==
    ASSUME Consistent, NEW c \in Clients, NEW sid \in SessionIds, VerifyAgain(c, sid)
    PROVE  Consistent'
<1> DEFINE r == [at |-> "reverify", fix |-> NoFix, session |-> history[sid]]
<1>1. Known(sid) /\ history[sid].remediations # <<>>
  BY DEF VerifyAgain, MayLoad
<1>2. history[sid] \in Session /\ history[sid].id = sid
  BY <1>1, RowFacts
<1>3. requests' = [requests EXCEPT ![c] = r] /\ UNCHANGED <<history, log>>
  BY DEF VerifyAgain, Serve
<1>4. r \in Request
  BY <1>2 DEF Request, Phases
<1>5. r.at = "reverify" /\ r.session = history[sid]
  OBVIOUS
<1>6. log' \in [SessionIds -> Seq(Remediation)]
  BY <1>3 DEF Consistent, TypeOK
<1> HIDE DEF r
<1> QED
  BY <1>1, <1>2, <1>3, <1>4, <1>5, <1>6, ServeConsistent

(* The end of the verification. *)
LEMMA VerifiedAgainStep ==
    ASSUME Consistent, NEW c \in Clients, VerifiedAgain(c)
    PROVE  Consistent'
<1> DEFINE s == requests[c].session
<1>1. Busy(c) /\ s \in Session /\ requests[c].at = "reverify" /\ s.remediations # <<>>
  BY RequestFacts DEF VerifiedAgain, Phases, Request, OwnedBy
<1>2. PICK v \in Verifications(s) : Save(Reverified(s, v))
  BY DEF VerifiedAgain
<1>3. v \in Verification
  BY <1>1, VerificationsFacts
<1> DEFINE n == Reverified(s, v)
<1>4. n \in Session /\ n.id = s.id /\ n.proposals = s.proposals
  BY <1>1, <1>3, ReverifiedFacts DEF SameSession
<1>5. Save(n) /\ Answer(c) /\ UNCHANGED log
  BY <1>2 DEF VerifiedAgain
<1> HIDE DEF n
<1> QED
  BY <1>1, <1>4, <1>5, AnswerConsistent

(* A restart forgets the requests. *)
LEMMA RestartStep ==
    ASSUME Consistent, Restart
    PROVE  Consistent'
<1>1. \A c \in Clients : ~Busy(c)'
  BY DEF Restart, Busy
<1>2. TypeOK'
  BY DEF Consistent, TypeOK, Restart
<1>3. Keyed'
  BY DEF Consistent, Keyed, Known, Restart
<1> QED
  BY <1>1, <1>2, <1>3 DEF Consistent, Owned

(* Every step keeps the requests and the rows consistent. *)
LEMMA NextConsistent ==
    ASSUME Consistent, [Next]_vars
    PROVE  Consistent'
<1>1. ASSUME UNCHANGED vars PROVE Consistent'
  BY <1>1 DEF vars, Consistent, TypeOK, Keyed, Owned, OwnedBy, Known, Busy
<1>2. ASSUME NEW c \in Clients, NEW sid \in SessionIds, Diagnose(c, sid)
      PROVE  Consistent'
  BY <1>2, DiagnoseStep
<1>3. ASSUME NEW c \in Clients, NEW healthy \in BOOLEAN, Diagnosed(c, healthy)
      PROVE  Consistent'
  BY <1>3, DiagnosedStep
<1>4. ASSUME NEW c \in Clients, NEW sid \in SessionIds, NEW fix \in Fixes,
             Execute(c, sid, fix)
      PROVE  Consistent'
  BY <1>4, ExecuteStep
<1>5. ASSUME NEW c \in Clients, NEW success \in BOOLEAN, ExecuteFix(c, success)
      PROVE  Consistent'
  BY <1>5, ExecuteFixStep
<1>6. ASSUME NEW c \in Clients, VerifyFix(c) PROVE Consistent'
  BY <1>6, VerifyFixStep
<1>7. ASSUME NEW c \in Clients, NEW sid \in SessionIds, VerifyAgain(c, sid)
      PROVE  Consistent'
  BY <1>7, VerifyAgainStep
<1>8. ASSUME NEW c \in Clients, VerifiedAgain(c) PROVE Consistent'
  BY <1>8, VerifiedAgainStep
<1> QED
  BY <1>1, <1>2, <1>3, <1>4, <1>5, <1>6, <1>7, <1>8, RestartStep DEF Next

(* The inductive invariant of the API, in every environment. *)
THEOREM AlwaysConsistent == Spec => []Consistent
<1>1. Init => Consistent
  BY InitConsistent
<1>2. Consistent /\ [Next]_vars => Consistent'
  BY NextConsistent
<1> QED
  BY <1>1, <1>2, PTL DEF Spec

-----------------------------------------------------------------------------
(* What follows *)

(* Rows, requests and what was done always have their types.                *)
THEOREM ApiTyped == Spec => []TypeOK
<1>1. Consistent => TypeOK
  BY DEF Consistent
<1> QED
  BY <1>1, AlwaysConsistent, PTL

(* A fix that is executed was proposed by the diagnosis of its session.  No *)
(* request, however late it saves, can have changed the proposals between.  *)
THEOREM OnlyOfferedFixes == Spec => OnlyOffered
<1> DEFINE Change == \A sid \in SessionIds : log'[sid] # log[sid] =>
                        Last(log'[sid]).tool \in ToSet(history[sid].proposals)
<1>1. ASSUME Consistent, NEW c \in Clients, NEW success \in BOOLEAN,
             ExecuteFix(c, success)
      PROVE  Change
  <2> DEFINE id     == requests[c].session.id
             fix    == requests[c].fix
             change == [tool |-> fix, success |-> success]
  <2>1. /\ requests[c].at = "execute" /\ OwnedBy(c) /\ requests[c] \in Request
    BY <1>1, RequestFacts DEF ExecuteFix, Phases
  <2>2. id \in SessionIds /\ fix \in Fixes /\ fix \in ToSet(history[id].proposals)
    BY <2>1 DEF OwnedBy
  <2>3. log' = [log EXCEPT ![id] = Append(@, change)]
    BY <1>1 DEF ExecuteFix
  <2>4. log \in [SessionIds -> Seq(Remediation)] /\ change \in Remediation
    BY <1>1, <2>2 DEF Consistent, TypeOK, Remediation
  <2>5. change.tool = fix
    OBVIOUS
  <2> HIDE DEF change
  <2>6. log'[id] = Append(log[id], change) /\ Last(log'[id]) = change
    BY <2>2, <2>3, <2>4 DEF Last
  <2>7. \A sid \in SessionIds : sid # id => log'[sid] = log[sid]
    BY <2>3, <2>4
  <2> QED
    BY <2>2, <2>5, <2>6, <2>7
<1>2. ASSUME Consistent, [Next]_vars, UNCHANGED log PROVE Change
  BY <1>2
<1>3. ASSUME Consistent, Next PROVE Change
  BY <1>1, <1>2, <1>3 DEF Next, Diagnose, Diagnosed, Execute, VerifyFix, VerifyAgain,
     VerifiedAgain, Restart
<1>4. Consistent /\ [Next]_vars => [Change]_vars
  BY <1>3
<1> QED
  BY <1>4, AlwaysConsistent, PTL DEF Spec, OnlyOffered

-----------------------------------------------------------------------------
(* History never claims more than was done *)

(* A session without fixes claims nothing. *)
LEMMA NothingClaimed ==
    ASSUME NEW done \in Seq(Remediation)
    PROVE  Realized(<<>>, done)
<1> DEFINE at == [i \in {} |-> 0]
<1>1. at \in [DOMAIN <<>> -> DOMAIN done]
  OBVIOUS
<1> QED
  BY <1>1 DEF Realized

(* What was realized stays so when more is done. *)
LEMMA MoreDone ==
    ASSUME NEW claimed \in Seq(Remediation), NEW done \in Seq(Remediation),
           NEW change \in Remediation, Realized(claimed, done)
    PROVE  Realized(claimed, Append(done, change))
<1>1. PICK at \in [DOMAIN claimed -> DOMAIN done] :
          /\ \A i, j \in DOMAIN claimed : i < j => at[i] < at[j]
          /\ \A i \in DOMAIN claimed : claimed[i] = done[at[i]]
  BY DEF Realized
<1>2. \A k \in DOMAIN done : k \in DOMAIN Append(done, change)
                            /\ Append(done, change)[k] = done[k]
  OBVIOUS
<1>3. at \in [DOMAIN claimed -> DOMAIN Append(done, change)]
  BY <1>2
<1>4. \A i \in DOMAIN claimed : claimed[i] = Append(done, change)[at[i]]
  BY <1>1, <1>2
<1> QED
  BY <1>1, <1>3, <1>4 DEF Realized

(* A change that is made is claimed after the ones before it. *)
LEMMA OneMoreClaimed ==
    ASSUME NEW claimed \in Seq(Remediation), NEW done \in Seq(Remediation),
           NEW change \in Remediation, Realized(claimed, done)
    PROVE  Realized(Append(claimed, change), Append(done, change))
<1>1. PICK at \in [DOMAIN claimed -> DOMAIN done] :
          /\ \A i, j \in DOMAIN claimed : i < j => at[i] < at[j]
          /\ \A i \in DOMAIN claimed : claimed[i] = done[at[i]]
  BY DEF Realized
<1> DEFINE m   == Len(claimed)
           n   == Len(done)
           now == [i \in 1..(m + 1) |-> IF i <= m THEN at[i] ELSE n + 1]
<1>2. /\ m \in Nat /\ n \in Nat
      /\ DOMAIN claimed = 1..m /\ DOMAIN done = 1..n
      /\ DOMAIN Append(claimed, change) = 1..(m + 1)
      /\ DOMAIN Append(done, change) = 1..(n + 1)
  OBVIOUS
<1>3. \A i \in 1..m : Append(claimed, change)[i] = claimed[i]
  OBVIOUS
<1>4. \A i \in 1..n : Append(done, change)[i] = done[i]
  OBVIOUS
<1>5. Append(claimed, change)[m + 1] = change /\ Append(done, change)[n + 1] = change
  OBVIOUS
<1> HIDE DEF m, n
<1>6. \A i \in 1..m : at[i] \in 1..n
  BY <1>1, <1>2
<1>7. now \in [1..(m + 1) -> 1..(n + 1)]
  BY <1>2, <1>6
<1>8. \A i \in 1..m : now[i] = at[i]
  BY <1>2
<1>9. now[m + 1] = n + 1
  BY <1>2
<1> HIDE DEF now
<1>10. \A i \in 1..(m + 1) : i \in 1..m \/ i = m + 1
  BY <1>2
<1>11. \A i, j \in 1..(m + 1) : i < j => now[i] < now[j]
  <2> SUFFICES ASSUME NEW i \in 1..(m + 1), NEW j \in 1..(m + 1), i < j
               PROVE  now[i] < now[j]
    OBVIOUS
  <2>1. i \in 1..m
    BY <1>2
  <2>2. CASE j \in 1..m
    BY <1>1, <1>2, <1>8, <2>1, <2>2
  <2>3. CASE j = m + 1
    <3>1. now[i] \in 1..n /\ now[j] = n + 1
      BY <1>6, <1>8, <1>9, <2>1, <2>3
    <3> QED
      BY <1>2, <3>1
  <2> QED
    BY <1>10, <2>2, <2>3
<1>12. \A i \in 1..(m + 1) : Append(claimed, change)[i] = Append(done, change)[now[i]]
  <2> SUFFICES ASSUME NEW i \in 1..(m + 1)
               PROVE  Append(claimed, change)[i] = Append(done, change)[now[i]]
    OBVIOUS
  <2>1. CASE i \in 1..m
    BY <1>1, <1>2, <1>3, <1>4, <1>6, <1>8, <2>1
  <2>2. CASE i = m + 1
    BY <1>5, <1>9, <2>2
  <2> QED
    BY <1>10, <2>1, <2>2
<1> QED
  BY <1>2, <1>7, <1>11, <1>12 DEF Realized

Claims == RecordRealized /\ CopiesRealized

(* A request that goes on with a copy that claims what its session may. *)
LEMMA ServeClaims ==
    ASSUME Consistent, Claims, NEW c \in Clients, NEW r \in Request,
           requests' = [requests EXCEPT ![c] = r], UNCHANGED <<history, log>>,
           Realized(r.session.remediations, log[r.session.id])
    PROVE  Claims'
<1>1. RecordRealized'
  BY DEF Claims, RecordRealized
<1>2. ASSUME NEW d \in Clients, Busy(d)'
      PROVE  Realized(requests'[d].session.remediations, log'[requests'[d].session.id])
  <2>1. CASE d = c
    BY <2>1 DEF Consistent, TypeOK
  <2>2. CASE d # c
    <3>1. requests'[d] = requests[d] /\ Busy(d)
      BY <1>2, <2>2 DEF Consistent, TypeOK, Busy
    <3> QED
      BY <3>1 DEF Claims, CopiesRealized
  <2> QED
    BY <2>1, <2>2
<1> QED
  BY <1>1, <1>2 DEF Claims, CopiesRealized

(* A request that saves its copy, or fails to. *)
LEMMA AnswerClaims ==
    ASSUME Consistent, Claims, NEW c \in Clients, Busy(c), OwnedBy(c), NEW s,
           SameSession(requests[c].session, s), Save(s), Answer(c), UNCHANGED log
    PROVE  Claims'
<1> DEFINE sid == requests[c].session.id
<1>1. sid \in SessionIds /\ Realized(s.remediations, log[sid]) /\ s.id = sid
  BY DEF OwnedBy, Claims, CopiesRealized, SameSession
<1>2. ASSUME NEW id \in SessionIds PROVE Realized(history'[id].remediations, log[id])
  <2>1. Realized(history[id].remediations, log[id])
    BY DEF Claims, RecordRealized
  <2>2. history' = [history EXCEPT ![sid] = s] \/ history' = history
    BY <1>1 DEF Save
  <2>3. history'[id] = history[id] \/ (id = sid /\ history'[id] = s)
    BY <1>1, <2>2 DEF Consistent, TypeOK
  <2> QED
    BY <1>1, <2>1, <2>3
<1>3. ASSUME NEW d \in Clients, Busy(d)'
      PROVE  requests'[d] = requests[d] /\ Busy(d)
  BY <1>3 DEF Answer, Consistent, TypeOK, Busy
<1> QED
  BY <1>2, <1>3 DEF Claims, RecordRealized, CopiesRealized

(* The fix is done to the PC, and added to one copy. *)
LEMMA ExecuteFixClaims ==
    ASSUME Consistent, Claims, NEW c \in Clients, NEW success \in BOOLEAN,
           ExecuteFix(c, success)
    PROVE  Claims'
<1> DEFINE s      == requests[c].session
           fix    == requests[c].fix
           change == [tool |-> fix, success |-> success]
           n      == FixRecorded(s, fix, success)
           r      == [at |-> "verify", fix |-> fix, session |-> n]
<1>1. s \in Session /\ fix \in Fixes /\ s.id \in SessionIds /\ Busy(c)
  BY RequestFacts DEF ExecuteFix, Phases, Request, OwnedBy
<1>2. n.id = s.id /\ n.remediations = Append(s.remediations, change)
  BY <1>1, FixRecordedFacts
<1>3. requests' = [requests EXCEPT ![c] = r] /\ history' = history
  BY DEF ExecuteFix, Serve
<1>4. log' = [log EXCEPT ![s.id] = Append(@, change)]
  BY DEF ExecuteFix
<1>5. change \in Remediation /\ s.remediations \in Seq(Remediation)
  BY <1>1 DEF Remediation, Session
<1> HIDE DEF n, change
<1>6. r.session = n
  OBVIOUS
<1> HIDE DEF r
<1>7. \A id \in SessionIds : log[id] \in Seq(Remediation)
  BY DEF Consistent, TypeOK
<1>8. ASSUME NEW id \in SessionIds, NEW claimed \in Seq(Remediation),
             Realized(claimed, log[id])
      PROVE  Realized(claimed, log'[id])
  <2>1. log'[id] = log[id] \/ log'[id] = Append(log[id], change)
    BY <1>1, <1>4 DEF Consistent, TypeOK
  <2> QED
    BY <1>5, <1>7, <1>8, <2>1, MoreDone
<1>9. RecordRealized'
  <2> SUFFICES ASSUME NEW id \in SessionIds
               PROVE  Realized(history[id].remediations, log'[id])
    BY <1>3 DEF RecordRealized
  <2>1. history[id].remediations \in Seq(Remediation)
    BY DEF Consistent, TypeOK, Session
  <2>2. Realized(history[id].remediations, log[id])
    BY DEF Claims, RecordRealized
  <2> QED
    BY <1>8, <2>1, <2>2
<1>10. ASSUME NEW d \in Clients, Busy(d)'
       PROVE  Realized(requests'[d].session.remediations, log'[requests'[d].session.id])
  <2>1. CASE d = c
    <3>1. requests'[d].session = n
      BY <1>3, <1>6, <2>1 DEF Consistent, TypeOK
    <3>2. Realized(s.remediations, log[s.id])
      BY <1>1 DEF Claims, CopiesRealized
    <3>3. log'[s.id] = Append(log[s.id], change)
      BY <1>1, <1>4 DEF Consistent, TypeOK
    <3> QED
      BY <1>1, <1>2, <1>5, <1>7, <3>1, <3>2, <3>3, OneMoreClaimed
  <2>2. CASE d # c
    <3>1. requests'[d] = requests[d] /\ Busy(d)
      BY <1>3, <1>10, <2>2 DEF Consistent, TypeOK, Busy
    <3>2. requests[d] \in Request /\ requests[d].session.id \in SessionIds
      BY <3>1, BusyFacts DEF Consistent, Owned, OwnedBy
    <3>3. requests[d].session.remediations \in Seq(Remediation)
      BY <3>2 DEF Request, Session
    <3>4. Realized(requests[d].session.remediations, log[requests[d].session.id])
      BY <3>1 DEF Claims, CopiesRealized
    <3> QED
      BY <1>8, <3>1, <3>2, <3>3, <3>4
  <2> QED
    BY <2>1, <2>2
<1> QED
  BY <1>9, <1>10 DEF Claims, CopiesRealized

LEMMA NextClaims ==
    ASSUME Consistent, Claims, [Next]_vars
    PROVE  Claims'
<1>1. ASSUME UNCHANGED vars PROVE Claims'
  BY <1>1 DEF vars, Claims, RecordRealized, CopiesRealized, Busy
<1>2. ASSUME NEW c \in Clients, NEW sid \in SessionIds, Diagnose(c, sid)
      PROVE  Claims'
  <2> DEFINE s == Diagnosing(NewSession(sid))
             r == [at |-> "diagnose", fix |-> NoFix, session |-> s]
  <2>1. s \in Session /\ s.id = sid /\ s.remediations = <<>>
    BY NewSessionFacts, DiagnosingFacts DEF SameSession
  <2>2. requests' = [requests EXCEPT ![c] = r] /\ UNCHANGED <<history, log>>
    BY <1>2 DEF Diagnose, Serve
  <2> HIDE DEF s
  <2>3. r \in Request /\ r.session = s
    BY <2>1 DEF Request, Phases
  <2>4. Realized(s.remediations, log[s.id])
    BY <2>1, NothingClaimed DEF Consistent, TypeOK
  <2> HIDE DEF r
  <2> QED
    BY <2>2, <2>3, <2>4, ServeClaims
<1>3. ASSUME NEW c \in Clients, NEW healthy \in BOOLEAN, Diagnosed(c, healthy)
      PROVE  Claims'
  <2> DEFINE s == requests[c].session
  <2>1. Busy(c) /\ OwnedBy(c) /\ s \in Session
    BY <1>3, RequestFacts DEF Diagnosed, Phases, Request
  <2>2. PICK ran \in AtMost(MaxSteps, Tools) \ {{}} : \E failed \in SUBSET ran :
               \E proposals \in ProposalLists(healthy, {}) :
                  Save(Recommended(Analyzed(Measured(s, ran \ failed, failed), {}),
                                   proposals, healthy))
    BY <1>3 DEF Diagnosed
  <2>3. PICK failed \in SUBSET ran, proposals \in ProposalLists(healthy, {}) :
               Save(Recommended(Analyzed(Measured(s, ran \ failed, failed), {}),
                                proposals, healthy))
    BY <2>2
  <2> DEFINE measured == Measured(s, ran \ failed, failed)
             analyzed == Analyzed(measured, {})
             final    == Recommended(analyzed, proposals, healthy)
  <2>4. ran \subseteq Tools
    BY DEF AtMost
  <2>5. SameSession(s, measured)
    BY <2>1, <2>4, MeasuredFacts
  <2> HIDE DEF measured
  <2>6. SameSession(measured, analyzed)
    BY <2>5, AnalyzedFacts DEF SameSession
  <2> HIDE DEF analyzed
  <2>7. proposals \in Seq(Fixes)
    BY ProposalListsFacts
  <2>8. SameSession(analyzed, final)
    BY <2>6, <2>7, RecommendedFacts DEF SameSession
  <2>9. Save(final)
    BY <2>3 DEF measured, analyzed
  <2> HIDE DEF final
  <2>10. SameSession(s, final)
    BY <2>5, <2>6, <2>8 DEF SameSession
  <2>11. Answer(c) /\ UNCHANGED log
    BY <1>3 DEF Diagnosed
  <2> QED
    BY <2>1, <2>9, <2>10, <2>11, AnswerClaims
<1>4. ASSUME NEW c \in Clients, NEW sid \in SessionIds, NEW fix \in Fixes,
             Execute(c, sid, fix)
      PROVE  Claims'
  <2> DEFINE s == Approved(history[sid])
             r == [at |-> "execute", fix |-> fix, session |-> s]
  <2>1. history[sid] \in Session /\ history[sid].id = sid
    BY <1>4, RowFacts DEF Execute, MayLoad
  <2>2. SameSession(history[sid], s)
    BY <2>1, ApprovedFacts
  <2>3. requests' = [requests EXCEPT ![c] = r] /\ UNCHANGED <<history, log>>
    BY <1>4 DEF Execute, Serve
  <2> HIDE DEF s
  <2>4. r \in Request /\ r.session = s
    BY <2>2 DEF Request, Phases, SameSession
  <2>5. Realized(s.remediations, log[s.id])
    BY <2>1, <2>2 DEF SameSession, Claims, RecordRealized
  <2> HIDE DEF r
  <2> QED
    BY <2>3, <2>4, <2>5, ServeClaims
<1>5. ASSUME NEW c \in Clients, NEW success \in BOOLEAN, ExecuteFix(c, success)
      PROVE  Claims'
  BY <1>5, ExecuteFixClaims
<1>6. ASSUME NEW c \in Clients, VerifyFix(c) PROVE Claims'
  <2> DEFINE s == requests[c].session
  <2>1. Busy(c) /\ OwnedBy(c) /\ s \in Session /\ s.remediations # <<>>
    BY <1>6, RequestFacts DEF VerifyFix, Phases, Request, OwnedBy
  <2>2. PICK v \in Verifications(s) : Save(Verified(s, v))
    BY <1>6 DEF VerifyFix
  <2>3. SameSession(s, Verified(s, v))
    BY <2>1, VerificationsFacts, VerifiedFacts
  <2>4. Answer(c) /\ UNCHANGED log
    BY <1>6 DEF VerifyFix
  <2> QED
    BY <2>1, <2>2, <2>3, <2>4, AnswerClaims
<1>7. ASSUME NEW c \in Clients, NEW sid \in SessionIds, VerifyAgain(c, sid)
      PROVE  Claims'
  <2> DEFINE r == [at |-> "reverify", fix |-> NoFix, session |-> history[sid]]
  <2>1. history[sid] \in Session /\ history[sid].id = sid
    BY <1>7, RowFacts DEF VerifyAgain, MayLoad
  <2>2. requests' = [requests EXCEPT ![c] = r] /\ UNCHANGED <<history, log>>
    BY <1>7 DEF VerifyAgain, Serve
  <2>3. r \in Request /\ r.session = history[sid]
    BY <2>1 DEF Request, Phases
  <2>4. Realized(history[sid].remediations, log[sid])
    BY DEF Claims, RecordRealized
  <2> HIDE DEF r
  <2> QED
    BY <2>1, <2>2, <2>3, <2>4, ServeClaims
<1>8. ASSUME NEW c \in Clients, VerifiedAgain(c) PROVE Claims'
  <2> DEFINE s == requests[c].session
  <2>1. Busy(c) /\ OwnedBy(c) /\ s \in Session /\ s.remediations # <<>>
    BY <1>8, RequestFacts DEF VerifiedAgain, Phases, Request, OwnedBy
  <2>2. PICK v \in Verifications(s) : Save(Reverified(s, v))
    BY <1>8 DEF VerifiedAgain
  <2>3. SameSession(s, Reverified(s, v))
    BY <2>1, VerificationsFacts, ReverifiedFacts
  <2>4. Answer(c) /\ UNCHANGED log
    BY <1>8 DEF VerifiedAgain
  <2> QED
    BY <2>1, <2>2, <2>3, <2>4, AnswerClaims
<1>9. ASSUME Restart PROVE Claims'
  <2>1. \A c \in Clients : ~Busy(c)'
    BY <1>9 DEF Restart, Busy
  <2> QED
    BY <1>9, <2>1 DEF Restart, Claims, RecordRealized, CopiesRealized
<1> QED
  BY <1>1, <1>2, <1>3, <1>4, <1>5, <1>6, <1>7, <1>8, <1>9 DEF Next

(* Whatever requests overlap, whatever writes fail and however often the    *)
(* server is restarted: the fixes that a saved session claims are among     *)
(* those done to the PC for it, in their order (server.py:113-165).         *)
THEOREM NothingInvented == Spec => []RecordRealized
<1>1. Init => Claims
  <2> SUFFICES ASSUME Init PROVE Claims
    OBVIOUS
  <2>1. \A c \in Clients : ~Busy(c)
    BY DEF Init, Busy
  <2>2. NoRow.remediations = <<>>
    BY NewSessionFacts DEF NoRow, NoSession
  <2>3. RecordRealized
    <3> SUFFICES ASSUME NEW sid \in SessionIds
                 PROVE  Realized(history[sid].remediations, log[sid])
      BY DEF RecordRealized
    <3>1. history[sid].remediations = <<>> /\ log[sid] = <<>>
      BY <2>2 DEF Init
    <3>2. <<>> \in Seq(Remediation)
      OBVIOUS
    <3> QED
      BY <3>1, <3>2, NothingClaimed
  <2> QED
    BY <2>1, <2>3 DEF Claims, CopiesRealized
<1>2. Consistent /\ Claims /\ [Next]_vars => Claims'
  BY NextClaims
<1>3. Claims => RecordRealized
  BY DEF Claims
<1> QED
  BY <1>1, <1>2, <1>3, AlwaysConsistent, PTL DEF Spec

-----------------------------------------------------------------------------
(* When nothing overlaps, fails or is restarted *)

(* Another session's requests are not affected by what one client does. *)
LEMMA OthersServe ==
    ASSUME TypeOK, NEW c \in Clients, NEW r,
           requests' = [requests EXCEPT ![c] = r],
           NEW sid, ~(Busy(c) /\ requests[c].session.id = sid), Serves(sid)
    PROVE  Serves(sid)'
BY DEF Serves, Busy, TypeOK

(* A request that loads a session nobody else has. *)
LEMMA ServeSerial ==
    ASSUME Consistent, Serial, NEW c \in Clients, ~Busy(c), NEW r \in Request,
           requests' = [requests EXCEPT ![c] = r], UNCHANGED <<history, log>>,
           ~Serves(r.session.id),
           r.session.remediations = log[r.session.id],
           r.at = "execute" => AttemptAllowed(r.session)
    PROVE  Serial'
<1>1. /\ requests'[c] = r
      /\ \A d \in Clients : d # c => requests'[d] = requests[d] /\ (Busy(d)' <=> Busy(d))
  BY DEF Consistent, TypeOK, Busy
<1>2. Alone'
  BY <1>1 DEF Serial, Alone, Serves
<1>3. CopyComplete'
  BY <1>1 DEF Serial, CopyComplete
<1>4. RecordComplete'
  BY OthersServe DEF Serial, RecordComplete, Consistent
<1>5. AttemptsBounded'
  BY DEF Serial, AttemptsBounded
<1> QED
  BY <1>2, <1>3, <1>4, <1>5 DEF Serial

(* The fix of the only request on a session. *)
LEMMA ExecuteFixSerial ==
    ASSUME Consistent, Serial, NEW c \in Clients, NEW success \in BOOLEAN,
           ExecuteFix(c, success)
    PROVE  Serial'
<1> DEFINE s      == requests[c].session
           fix    == requests[c].fix
           change == [tool |-> fix, success |-> success]
           r      == [at |-> "verify", fix |-> fix, session |-> FixRecorded(s, fix, success)]
<1>1. /\ Busy(c) /\ s \in Session /\ fix \in Fixes /\ s.id \in SessionIds
      /\ requests[c].at = "execute"
  BY RequestFacts DEF ExecuteFix, Phases, Request, OwnedBy
<1>2. /\ FixRecorded(s, fix, success).id = s.id
      /\ FixRecorded(s, fix, success).remediations = Append(s.remediations, change)
  BY <1>1, FixRecordedFacts
<1>3. /\ requests' = [requests EXCEPT ![c] = r] /\ history' = history
      /\ log' = [log EXCEPT ![s.id] = Append(@, change)]
  BY DEF ExecuteFix, Serve
<1>4. r.session.id = s.id /\ r.session.remediations = Append(s.remediations, change)
      /\ r.at = "verify"
  BY <1>2
<1>5. change \in Remediation /\ log \in [SessionIds -> Seq(Remediation)]
  BY <1>1 DEF Consistent, TypeOK, Remediation
<1> HIDE DEF change, r
<1>6. /\ requests'[c] = r
      /\ \A d \in Clients : d # c => requests'[d] = requests[d] /\ (Busy(d)' <=> Busy(d))
  BY <1>3 DEF Consistent, TypeOK, Busy
<1>7. /\ log'[s.id] = Append(log[s.id], change)
      /\ \A sid \in SessionIds : sid # s.id => log'[sid] = log[sid]
  BY <1>1, <1>3, <1>5
<1>8. /\ s.remediations = log[s.id] /\ AttemptAllowed(s)
      /\ \A d \in Clients : d # c /\ Busy(d) => requests[d].session.id # s.id
  BY <1>1 DEF Serial, CopyComplete, Alone
<1>9. Alone'
  BY <1>1, <1>4, <1>6 DEF Serial, Alone
<1>10. CopyComplete'
  <2> SUFFICES ASSUME NEW d \in Clients, Busy(d)'
      PROVE  /\ requests'[d].session.remediations = log'[requests'[d].session.id]
             /\ requests'[d].at = "execute" => AttemptAllowed(requests'[d].session)
    BY DEF CopyComplete
  <2>1. CASE d = c
    BY <1>4, <1>6, <1>7, <1>8, <2>1
  <2>2. CASE d # c
    <3>1. /\ requests'[d] = requests[d] /\ Busy(d)
          /\ requests[d].session.id \in SessionIds
      BY <1>6, <2>2 DEF Consistent, Owned, OwnedBy
    <3> QED
      BY <1>7, <1>8, <2>2, <3>1 DEF Serial, CopyComplete
  <2> QED
    BY <2>1, <2>2
<1>11. RecordComplete'
  <2> SUFFICES ASSUME NEW sid \in SessionIds, ~Serves(sid)'
      PROVE  history'[sid].remediations = log'[sid]
    BY DEF RecordComplete
  <2>1. Busy(c)'
    BY <1>4, <1>6 DEF Busy, Idle
  <2>2. sid # s.id
    BY <1>4, <1>6, <2>1 DEF Serves
  <2>3. ~Serves(sid)
    BY <1>3, <2>2, OthersServe DEF Consistent
  <2> QED
    BY <1>3, <1>7, <2>2, <2>3 DEF Serial, RecordComplete
<1>12. AttemptsBounded'
  <2>1. Len(log[s.id]) < MaxAttempts
    BY <1>8 DEF AttemptAllowed
  <2>2. Len(log'[s.id]) <= MaxAttempts
    BY <1>1, <1>5, <1>7, <2>1, SessionAssumption
  <2> QED
    BY <1>7, <2>2 DEF Serial, AttemptsBounded
<1> QED
  BY <1>9, <1>10, <1>11, <1>12 DEF Serial

(* The only request on a session saves all that was done for it. *)
LEMMA AnswerSerial ==
    ASSUME Environment = {}, Consistent, Serial, NEW c \in Clients, Busy(c),
           NEW s \in Session, SameSession(requests[c].session, s),
           Save(s), Answer(c), UNCHANGED log
    PROVE  Serial'
<1> DEFINE sid == requests[c].session.id
<1>1. /\ sid \in SessionIds /\ s.id = sid /\ s.remediations = log[sid]
  BY DEF Consistent, Owned, OwnedBy, Serial, CopyComplete, SameSession
<1>2. requests' = [requests EXCEPT ![c] = Idle]
  BY DEF Answer
<1>3. history' = [history EXCEPT ![sid] = s]
  BY <1>1 DEF Save
<1>4. \A d \in Clients : Busy(d)' => requests'[d] = requests[d] /\ Busy(d)
  BY <1>2 DEF Consistent, TypeOK, Busy
<1>5. Alone'
  BY <1>4 DEF Serial, Alone
<1>6. CopyComplete'
  BY <1>4 DEF Serial, CopyComplete
<1>7. RecordComplete'
  <2> SUFFICES ASSUME NEW x \in SessionIds, ~Serves(x)'
      PROVE  history'[x].remediations = log'[x]
    BY DEF RecordComplete
  <2>1. history \in [SessionIds -> Session]
    BY DEF Consistent, TypeOK
  <2>2. CASE x = sid
    BY <1>1, <1>3, <2>1, <2>2
  <2>3. CASE x # sid
    <3>1. ~Serves(x)
      BY <1>2, <2>3, OthersServe DEF Consistent
    <3> QED
      BY <1>3, <2>1, <2>3, <3>1 DEF Serial, RecordComplete
  <2> QED
    BY <2>2, <2>3
<1>8. AttemptsBounded'
  BY DEF Serial, AttemptsBounded
<1> QED
  BY <1>5, <1>6, <1>7, <1>8 DEF Serial

(* Each step that does not overlap another request on its session. *)
LEMMA NextSerial ==
    ASSUME Environment = {}, Consistent, Serial, [Next]_vars
    PROVE  Serial'
<1>1. ASSUME UNCHANGED vars PROVE Serial'
  BY <1>1 DEF vars, Serial, Alone, CopyComplete, RecordComplete, AttemptsBounded, Busy, Serves
<1>2. ASSUME NEW c \in Clients, NEW sid \in SessionIds, Diagnose(c, sid)
      PROVE  Serial'
  <2> DEFINE s == Diagnosing(NewSession(sid))
             r == [at |-> "diagnose", fix |-> NoFix, session |-> s]
  <2>1. s \in Session /\ s.id = sid /\ s.remediations = <<>>
    BY NewSessionFacts, DiagnosingFacts DEF SameSession
  <2>2. /\ requests' = [requests EXCEPT ![c] = r] /\ UNCHANGED <<history, log>>
        /\ ~Busy(c) /\ ~Serves(sid) /\ log[sid] = <<>>
    BY <1>2 DEF Diagnose, Serve
  <2> HIDE DEF s
  <2>3. r \in Request /\ r.session = s /\ r.at # "execute"
    BY <2>1 DEF Request, Phases
  <2> HIDE DEF r
  <2> QED
    BY <2>1, <2>2, <2>3, ServeSerial
<1>3. ASSUME NEW c \in Clients, NEW healthy \in BOOLEAN, Diagnosed(c, healthy)
      PROVE  Serial'
  <2> DEFINE s == requests[c].session
  <2>1. Busy(c) /\ s \in Session
    BY <1>3, RequestFacts DEF Diagnosed, Phases, Request
  <2>2. PICK ran \in AtMost(MaxSteps, Tools) \ {{}} : \E failed \in SUBSET ran :
               \E proposals \in ProposalLists(healthy, {}) :
                  Save(Recommended(Analyzed(Measured(s, ran \ failed, failed), {}),
                                   proposals, healthy))
    BY <1>3 DEF Diagnosed
  <2>3. PICK failed \in SUBSET ran, proposals \in ProposalLists(healthy, {}) :
                  Save(Recommended(Analyzed(Measured(s, ran \ failed, failed), {}),
                                   proposals, healthy))
    BY <2>2
  <2> DEFINE measured == Measured(s, ran \ failed, failed)
             analyzed == Analyzed(measured, {})
             final    == Recommended(analyzed, proposals, healthy)
  <2>4. ran \subseteq Tools
    BY DEF AtMost
  <2>5. SameSession(s, measured)
    BY <2>1, <2>4, MeasuredFacts
  <2> HIDE DEF measured
  <2>6. SameSession(measured, analyzed)
    BY <2>5, AnalyzedFacts DEF SameSession
  <2> HIDE DEF analyzed
  <2>7. proposals \in Seq(Fixes)
    BY ProposalListsFacts
  <2>8. SameSession(analyzed, final)
    BY <2>6, <2>7, RecommendedFacts DEF SameSession
  <2>9. Save(final)
    BY <2>3 DEF measured, analyzed
  <2> HIDE DEF final
  <2>10. SameSession(s, final)
    BY <2>5, <2>6, <2>8 DEF SameSession
  <2>11. Answer(c) /\ UNCHANGED log /\ final \in Session
    BY <1>3, <2>10 DEF Diagnosed, SameSession
  <2> QED
    BY <2>1, <2>9, <2>10, <2>11, AnswerSerial
<1>4. ASSUME NEW c \in Clients, NEW sid \in SessionIds, NEW fix \in Fixes,
             Execute(c, sid, fix)
      PROVE  Serial'
  <2> DEFINE s == Approved(history[sid])
             r == [at |-> "execute", fix |-> fix, session |-> s]
  <2>1. /\ Known(sid) /\ ~Serves(sid) /\ ~Busy(c) /\ AttemptAllowed(history[sid])
    BY <1>4 DEF Execute, MayLoad
  <2>2. s \in Session /\ s.id = sid /\ s.remediations = history[sid].remediations
    BY <2>1, RowFacts, ApprovedFacts DEF SameSession
  <2>3. requests' = [requests EXCEPT ![c] = r] /\ UNCHANGED <<history, log>>
    BY <1>4 DEF Execute, Serve
  <2> HIDE DEF s
  <2>4. r \in Request /\ r.session = s
    BY <2>2 DEF Request, Phases
  <2>5. AttemptAllowed(s) /\ s.remediations = log[sid]
    BY <2>1, <2>2 DEF AttemptAllowed, Serial, RecordComplete
  <2> HIDE DEF r
  <2> QED
    BY <2>1, <2>2, <2>3, <2>4, <2>5, ServeSerial
<1>5. ASSUME NEW c \in Clients, NEW success \in BOOLEAN, ExecuteFix(c, success)
      PROVE  Serial'
  BY <1>5, ExecuteFixSerial
<1>6. ASSUME NEW c \in Clients, VerifyFix(c) PROVE Serial'
  <2> DEFINE s == requests[c].session
  <2>1. Busy(c) /\ s \in Session /\ s.remediations # <<>>
    BY <1>6, RequestFacts DEF VerifyFix, Phases, Request, OwnedBy
  <2>2. PICK v \in Verifications(s) : Save(Verified(s, v))
    BY <1>6 DEF VerifyFix
  <2>3. v \in Verification
    BY <2>1, VerificationsFacts
  <2>4. SameSession(s, Verified(s, v)) /\ Verified(s, v) \in Session
    BY <2>1, <2>3, VerifiedFacts DEF SameSession
  <2>5. Answer(c) /\ UNCHANGED log
    BY <1>6 DEF VerifyFix
  <2> QED
    BY <2>1, <2>2, <2>4, <2>5, AnswerSerial
<1>7. ASSUME NEW c \in Clients, NEW sid \in SessionIds, VerifyAgain(c, sid)
      PROVE  Serial'
  <2> DEFINE r == [at |-> "reverify", fix |-> NoFix, session |-> history[sid]]
  <2>1. Known(sid) /\ ~Serves(sid) /\ ~Busy(c)
    BY <1>7 DEF VerifyAgain, MayLoad
  <2>2. /\ history[sid] \in Session /\ history[sid].id = sid
        /\ history[sid].remediations = log[sid]
    BY <2>1, RowFacts DEF Serial, RecordComplete
  <2>3. requests' = [requests EXCEPT ![c] = r] /\ UNCHANGED <<history, log>>
    BY <1>7 DEF VerifyAgain, Serve
  <2>4. r \in Request /\ r.session = history[sid] /\ r.at # "execute"
    BY <2>2 DEF Request, Phases
  <2> HIDE DEF r
  <2> QED
    BY <2>1, <2>2, <2>3, <2>4, ServeSerial
<1>8. ASSUME NEW c \in Clients, VerifiedAgain(c) PROVE Serial'
  <2> DEFINE s == requests[c].session
  <2>1. Busy(c) /\ s \in Session /\ s.remediations # <<>>
    BY <1>8, RequestFacts DEF VerifiedAgain, Phases, Request, OwnedBy
  <2>2. PICK v \in Verifications(s) : Save(Reverified(s, v))
    BY <1>8 DEF VerifiedAgain
  <2>3. v \in Verification
    BY <2>1, VerificationsFacts
  <2>4. SameSession(s, Reverified(s, v)) /\ Reverified(s, v) \in Session
    BY <2>1, <2>3, ReverifiedFacts DEF SameSession
  <2>5. Answer(c) /\ UNCHANGED log
    BY <1>8 DEF VerifiedAgain
  <2> QED
    BY <2>1, <2>2, <2>4, <2>5, AnswerSerial
<1>9. ~Restart
  BY DEF Restart
<1> QED
  BY <1>1, <1>2, <1>3, <1>4, <1>5, <1>6, <1>7, <1>8, <1>9 DEF Next

(* A client that waits for its answers, on a server that is not restarted   *)
(* and whose writes succeed, finds in History all that was done.            *)
THEOREM RecordsAreComplete ==
    ASSUME Environment = {}
    PROVE  Spec => [](RecordComplete /\ AttemptsBounded)
<1>1. Init => Serial
  <2> SUFFICES ASSUME Init PROVE Serial
    OBVIOUS
  <2>1. \A c \in Clients : ~Busy(c)
    BY DEF Init, Busy
  <2>2. RecordComplete /\ AttemptsBounded
    BY SessionAssumption DEF Init, RecordComplete, AttemptsBounded, NoRow, NoSession, NewSession
  <2> QED
    BY <2>1, <2>2 DEF Serial, Alone, CopyComplete
<1>2. Consistent /\ Serial /\ [Next]_vars => Serial'
  BY NextSerial
<1>3. Serial => RecordComplete /\ AttemptsBounded
  BY DEF Serial
<1> QED
  BY <1>1, <1>2, <1>3, AlwaysConsistent, PTL DEF Spec

(* The same client's requests try no more fixes in a session than           *)
(* MAX_REMEDIATION_ATTEMPTS allows.  (Two requests that overlap each read   *)
(* the count before either records its fix: the run ApiAttempts shows it.)  *)
THEOREM AttemptsStayBounded ==
    ASSUME Environment = {}
    PROVE  Spec => []AttemptsBounded
BY RecordsAreComplete, PTL
================================================================================
