----------------------------- MODULE RegistryProofs -----------------------------
(***************************************************************************)
(* A tool whose caller was told of a timeout does not begin afterwards,    *)
(* for any number of calls, threads and functions that hang.               *)
(***************************************************************************)
EXTENDS ToolRegistry, TLAPS

Settled == TypeOK /\ FuturesSettled

(* Nothing was submitted at first. *)
LEMMA InitSettled == Init => Settled
BY DEF Init, Settled, TypeOK, FuturesSettled, Answers

(* Every step keeps the variables typed. *)
LEMMA NextTyped ==
    ASSUME TypeOK, [Next]_vars
    PROVE  TypeOK'
<1> USE DEF TypeOK, Answers
<1>1. CASE UNCHANGED vars
  BY <1>1 DEF vars
<1>2. ASSUME NEW c \in Calls, Submit(c) PROVE TypeOK'
  BY <1>2 DEF Submit
<1>3. CASE Start
  <2>1. Head(queue) \in Calls /\ Tail(queue) \in Seq(Calls)
    BY <1>3 DEF Start
  <2> QED
    BY <1>3, <2>1 DEF Start, Begins
<1>4. ASSUME NEW c \in Calls, NEW success \in BOOLEAN, NEW worked \in BOOLEAN,
             FunctionEnds(c, success, worked)
      PROVE  TypeOK'
  BY <1>4 DEF FunctionEnds, Reported
<1>5. ASSUME NEW c \in Calls, GetResult(c) PROVE TypeOK'
  BY <1>5 DEF GetResult
<1>6. ASSUME NEW c \in Calls, TimesOut(c) PROVE TypeOK'
  BY <1>6 DEF TimesOut
<1>7. ASSUME NEW c \in Calls, GiveUp(c) PROVE TypeOK'
  BY <1>7 DEF GiveUp, Withdrawn
<1> QED
  BY <1>1, <1>2, <1>3, <1>4, <1>5, <1>6, <1>7 DEF Next

(* No step leaves an answered call with a future that is still pending. *)
LEMMA NextSettled ==
    ASSUME Settled, [Next]_vars
    PROVE  Settled'
<1>1. TypeOK'
  BY NextTyped DEF Settled
<1> USE DEF Settled, TypeOK, FuturesSettled
<1>2. CASE UNCHANGED vars
  BY <1>2 DEF vars
<1>3. ASSUME NEW c \in Calls, Submit(c) PROVE FuturesSettled'
  BY <1>3 DEF Submit
<1>4. CASE Start
  BY <1>4 DEF Start, Begins
<1>5. ASSUME NEW c \in Calls, NEW success \in BOOLEAN, NEW worked \in BOOLEAN,
             FunctionEnds(c, success, worked)
      PROVE  FuturesSettled'
  BY <1>5 DEF FunctionEnds
<1>6. ASSUME NEW c \in Calls, GetResult(c) PROVE FuturesSettled'
  BY <1>6 DEF GetResult
<1>7. ASSUME NEW c \in Calls, TimesOut(c) PROVE FuturesSettled'
  BY <1>7 DEF TimesOut
<1>8. ASSUME NEW c \in Calls, GiveUp(c) PROVE FuturesSettled'
  BY <1>8 DEF GiveUp, Withdrawn
<1> QED
  BY <1>1, <1>2, <1>3, <1>4, <1>5, <1>6, <1>7, <1>8 DEF Next

(* The inductive invariant of the registry. *)
THEOREM AlwaysSettled == Spec => []Settled
<1>1. Settled /\ [Next]_vars => Settled'
  BY NextSettled
<1> QED
  BY <1>1, InitSettled, PTL DEF Spec

(* Every call, its caller and its future always have their types.           *)
THEOREM RegistryTyped == Spec => []TypeOK
<1>1. Settled => TypeOK
  BY DEF Settled
<1> QED
  BY <1>1, AlwaysSettled, PTL

(* What was still queued when its caller gave up never runs: a retry after  *)
(* a timeout can meet only a function that was running already.             *)
THEOREM TimedOutNeverStarts == Spec => NoLateStart
<1> DEFINE Late == \A c \in Calls : caller[c] = "answered" /\ future'[c] = "running" =>
                      future[c] = "running"
<1>1. ASSUME Settled, Next PROVE Late
  <2> USE DEF Settled, TypeOK, FuturesSettled
  <2>1. ASSUME NEW c \in Calls, Submit(c) PROVE Late
    BY <2>1, <1>1 DEF Submit
  <2>2. CASE Start
    BY <2>2, <1>1 DEF Start, Begins
  <2>3. ASSUME NEW c \in Calls, NEW success \in BOOLEAN, NEW worked \in BOOLEAN,
               FunctionEnds(c, success, worked)
        PROVE  Late
    BY <2>3, <1>1 DEF FunctionEnds
  <2>4. ASSUME NEW c \in Calls, GiveUp(c) PROVE Late
    BY <2>4, <1>1 DEF GiveUp, Withdrawn
  <2>5. ASSUME UNCHANGED future PROVE Late
    BY <2>5
  <2> QED
    BY <1>1, <2>1, <2>2, <2>3, <2>4, <2>5 DEF Next, GetResult, TimesOut
<1>2. Settled /\ [Next]_vars => [Late]_vars
  BY <1>1
<1> QED
  BY <1>2, AlwaysSettled, PTL DEF Spec, NoLateStart
=============================================================================
