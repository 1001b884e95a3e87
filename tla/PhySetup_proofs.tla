-------------------------- MODULE PhySetup_proofs --------------------------
(***************************************************************************)
(* The setup of every adapter, for every configuration and whatever has    *)
(* gone before: what each call is to leave in the registers (PhyGoals) is  *)
(* reached by its row of steps.  First how rows are composed, then what a  *)
(* step does to a goal, then which goals the routines reach.               *)
(***************************************************************************)
EXTENDS PhyGoals, SequenceTheorems, TLAPS

\* A row none of whose steps ends the call or skips what comes after the row.
Passes(a, q, g) ==
    \A j \in 1 .. Len(q) : q[j] \in Passing(a) /\ j + Skipped(q[j], g) <= Len(q)
-----------------------------------------------------------------------------
(* Rows of steps.                                                          *)

LEMMA SkippedType == \A a, g : \A s \in Steps(a) : Skipped(s, g) \in Nat
  BY DEF Steps, Skipped

LEMMA NoSteps ==
    ASSUME NEW a, NEW g
    PROVE  <<>> \in Seq(Steps(a)) /\ Passes(a, <<>>, g) /\ Keeps(a, <<>>, g)
  BY DEF Passes, Keeps, KeepsFrom

LEMMA OneStep ==
    ASSUME NEW a, NEW g, NEW s \in Steps(a)
    PROVE  /\ <<s>> \in Seq(Steps(a))
           /\ s \in Passing(a) /\ s.skip = 0 => Passes(a, <<s>>, g)
           /\ s \in Keeping(a, g) => Keeps(a, <<s>>, g)
           /\ s \in Setting(a, g) => Reaches(a, <<s>>, g)
<1> DEFINE q == <<s>>
<1>1. q \in Seq(Steps(a)) /\ Len(q) = 1 /\ q[1] = s
  OBVIOUS
<1>2. s.skip = 0 => Skipped(s, g) = 0
  BY DEF Skipped
<1> HIDE DEF q
<1>3. s \in Passing(a) /\ s.skip = 0 => Passes(a, q, g)
  BY <1>1, <1>2 DEF Passes
<1>4. s \in Keeping(a, g) => Keeps(a, q, g)
  BY <1>1 DEF Keeps, KeepsFrom
<1>5. s \in Setting(a, g) => Reaches(a, q, g)
  BY <1>1 DEF Reaches, KeepsFrom
<1> QED
  BY <1>1, <1>3, <1>4, <1>5 DEF q

LEMMA PassesCat ==
    ASSUME NEW a, NEW g, NEW p \in Seq(Steps(a)), NEW q \in Seq(Steps(a)),
           Passes(a, p, g), Passes(a, q, g)
    PROVE  Passes(a, p \o q, g)
<1> SUFFICES ASSUME NEW j \in 1 .. Len(p \o q)
             PROVE  (p \o q)[j] \in Passing(a) /\ j + Skipped((p \o q)[j], g) <= Len(p \o q)
  BY DEF Passes
<1>1. /\ Len(p) \in Nat /\ Len(q) \in Nat /\ Len(p \o q) = Len(p) + Len(q)
      /\ (p \o q)[j] = IF j <= Len(p) THEN p[j] ELSE q[j - Len(p)]
  BY ConcatProperties
<1>2. CASE j <= Len(p)
  <2>1. p[j] \in Passing(a) /\ j + Skipped(p[j], g) <= Len(p) /\ p[j] \in Steps(a)
    BY <1>1, <1>2 DEF Passes
  <2> QED
    BY <1>1, <1>2, <2>1, SkippedType
<1>3. CASE ~(j <= Len(p))
  <2>1. /\ q[j - Len(p)] \in Passing(a) /\ j - Len(p) + Skipped(q[j - Len(p)], g) <= Len(q)
        /\ q[j - Len(p)] \in Steps(a)
    BY <1>1, <1>3 DEF Passes
  <2> QED
    BY <1>1, <1>3, <2>1, SkippedType
<1> QED
  BY <1>2, <1>3

\* From step n on p keeps the bit, and so does all of q.
LEMMA KeepsCatFrom ==
    ASSUME NEW a, NEW g, NEW p \in Seq(Steps(a)), NEW q \in Seq(Steps(a)), NEW n \in Nat \ {0},
           KeepsFrom(a, p, g, n), Keeps(a, q, g)
    PROVE  KeepsFrom(a, p \o q, g, n)
<1> DEFINE r == p \o q
<1>1. /\ Len(p) \in Nat /\ Len(q) \in Nat /\ Len(r) = Len(p) + Len(q)
      /\ \A j \in 1 .. Len(p) + Len(q) : r[j] = IF j <= Len(p) THEN p[j] ELSE q[j - Len(p)]
  BY ConcatProperties
<1> HIDE DEF r
<1> SUFFICES ASSUME NEW j \in n .. Len(p) + Len(q)
             PROVE  \/ r[j] \in Keeping(a, g)
                    \/ /\ r[j] \in Passing(a) /\ Skipped(r[j], g) = 0
                       /\ j < Len(p) + Len(q) /\ r[j + 1] \in Setting(a, g)
  BY <1>1 DEF KeepsFrom, r
<1>2. CASE j <= Len(p)
  <2>1. j \in n .. Len(p) /\ r[j] = p[j]
    BY <1>1, <1>2
  <2>2. j < Len(p) => j < Len(p) + Len(q) /\ r[j + 1] = p[j + 1]
    BY <1>1
  <2> QED
    BY <2>1, <2>2 DEF KeepsFrom
<1>3. CASE ~(j <= Len(p))
  <2>1. j - Len(p) \in 1 .. Len(q) /\ r[j] = q[j - Len(p)]
    BY <1>1, <1>3
  <2>2. j - Len(p) < Len(q) => j < Len(p) + Len(q) /\ r[j + 1] = q[(j - Len(p)) + 1]
    BY <1>1, <1>3
  <2> QED
    BY <2>1, <2>2 DEF Keeps, KeepsFrom
<1> QED
  BY <1>2, <1>3

LEMMA KeepsCat ==
    ASSUME NEW a, NEW g, NEW p \in Seq(Steps(a)), NEW q \in Seq(Steps(a)),
           Keeps(a, p, g), Keeps(a, q, g)
    PROVE  Keeps(a, p \o q, g)
  BY KeepsCatFrom DEF Keeps

\* A row that keeps the bit after one that reaches the goal.
LEMMA ReachesKept ==
    ASSUME NEW a, NEW g, NEW p \in Seq(Steps(a)), NEW q \in Seq(Steps(a)),
           Reaches(a, p, g), Keeps(a, q, g)
    PROVE  Reaches(a, p \o q, g)
<1> DEFINE r == p \o q
<1>1. /\ Len(p) \in Nat /\ Len(q) \in Nat /\ Len(r) = Len(p) + Len(q)
      /\ \A j \in 1 .. Len(p) + Len(q) : r[j] = IF j <= Len(p) THEN p[j] ELSE q[j - Len(p)]
  BY ConcatProperties
<1>2. PICK i \in 1 .. Len(p) :
         /\ p[i] \in Setting(a, g)
         /\ \A j \in 1 .. i - 1 : p[j] \in Passing(a) /\ j + Skipped(p[j], g) < i
         /\ KeepsFrom(a, p, g, i + 1)
  BY DEF Reaches
<1>3. KeepsFrom(a, r, g, i + 1)
  BY <1>2, KeepsCatFrom
<1> HIDE DEF r
<1>4. i \in 1 .. Len(r) /\ \A j \in 1 .. i : r[j] = p[j]
  BY <1>1
<1>5. Reaches(a, r, g)
  BY <1>2, <1>3, <1>4 DEF Reaches
<1> QED
  BY <1>5 DEF r

\* A row that reaches the goal after one that goes on to it.
LEMMA ReachesPassed ==
    ASSUME NEW a, NEW g, NEW p \in Seq(Steps(a)), NEW q \in Seq(Steps(a)),
           Passes(a, p, g), Reaches(a, q, g)
    PROVE  Reaches(a, p \o q, g)
<1> DEFINE r == p \o q
<1>1. /\ Len(p) \in Nat /\ Len(q) \in Nat /\ Len(r) = Len(p) + Len(q)
      /\ \A j \in 1 .. Len(p) + Len(q) : r[j] = IF j <= Len(p) THEN p[j] ELSE q[j - Len(p)]
  BY ConcatProperties
<1>2. PICK i \in 1 .. Len(q) :
         /\ q[i] \in Setting(a, g)
         /\ \A j \in 1 .. i - 1 : q[j] \in Passing(a) /\ j + Skipped(q[j], g) < i
         /\ KeepsFrom(a, q, g, i + 1)
  BY DEF Reaches
<1> HIDE DEF r
<1>3. Len(p) + i \in 1 .. Len(r) /\ r[Len(p) + i] = q[i]
  BY <1>1
<1>4. ASSUME NEW j \in 1 .. (Len(p) + i) - 1
      PROVE  r[j] \in Passing(a) /\ j + Skipped(r[j], g) < Len(p) + i
  <2>1. CASE j <= Len(p)
    <3>1. r[j] = p[j] /\ p[j] \in Passing(a) /\ j + Skipped(p[j], g) <= Len(p) /\ p[j] \in Steps(a)
      BY <1>1, <2>1 DEF Passes
    <3> QED
      BY <1>1, <3>1, SkippedType
  <2>2. CASE ~(j <= Len(p))
    <3>1. /\ r[j] = q[j - Len(p)] /\ q[j - Len(p)] \in Passing(a) /\ q[j - Len(p)] \in Steps(a)
          /\ j - Len(p) + Skipped(q[j - Len(p)], g) < i
      BY <1>1, <1>2, <2>2
    <3> QED
      BY <1>1, <3>1, SkippedType
  <2> QED
    BY <2>1, <2>2
<1>5. KeepsFrom(a, r, g, (Len(p) + i) + 1)
  <2> SUFFICES ASSUME NEW j \in (Len(p) + i) + 1 .. Len(r)
               PROVE  \/ r[j] \in Keeping(a, g)
                      \/ /\ r[j] \in Passing(a) /\ Skipped(r[j], g) = 0
                         /\ j < Len(r) /\ r[j + 1] \in Setting(a, g)
    BY DEF KeepsFrom
  <2>1. j - Len(p) \in i + 1 .. Len(q) /\ r[j] = q[j - Len(p)]
    BY <1>1
  <2>2. j - Len(p) < Len(q) => j < Len(r) /\ r[j + 1] = q[(j - Len(p)) + 1]
    BY <1>1
  <2> QED
    BY <1>2, <2>1, <2>2 DEF KeepsFrom
<1>6. Reaches(a, r, g)
  BY <1>2, <1>3, <1>4, <1>5 DEF Reaches
<1> QED
  BY <1>6 DEF r

\* What remains of a row after its first step and the n that are skipped.
LEMMA RestOf ==
    ASSUME NEW a, NEW q \in Seq(Steps(a)), q # <<>>, NEW n \in Nat
    PROVE  LET r == SubSeq(q, n + 2, Len(q))
           IN  /\ r \in Seq(Steps(a)) /\ Len(q) \in Nat \ {0} /\ Len(r) \in Nat
               /\ Len(r) = IF n + 2 <= Len(q) THEN Len(q) - n - 1 ELSE 0
               /\ \A j \in 1 .. Len(r) : r[j] = q[j + n + 1]
               /\ Head(q) = q[1] /\ q[1] \in Steps(a)
<1>1. Len(q) \in Nat \ {0}
  BY EmptySeq
<1>2. \A j \in n + 2 .. Len(q) : q[j] \in Steps(a)
  BY <1>1, ElementOfSeq
<1>3. n + 2 \in Int /\ Len(q) \in Int
  BY <1>1
<1> DEFINE r == SubSeq(q, n + 2, Len(q))
<1>4. /\ r \in Seq(Steps(a)) /\ Len(r) = IF n + 2 <= Len(q) THEN Len(q) - (n + 2) + 1 ELSE 0
      /\ \A j \in 1 .. Len(q) - (n + 2) + 1 : r[j] = q[(n + 2) + j - 1]
  BY <1>2, <1>3, SubSeqProperties
<1> HIDE DEF r
<1>5. Len(r) \in Nat /\ Len(r) = (IF n + 2 <= Len(q) THEN Len(q) - n - 1 ELSE 0)
  BY <1>1, <1>4
<1>6. ASSUME NEW j \in 1 .. Len(r) PROVE r[j] = q[j + n + 1]
  <2>1. j \in 1 .. Len(q) - (n + 2) + 1 /\ (n + 2) + j - 1 = j + n + 1
    BY <1>1, <1>5
  <2> QED
    BY <1>4, <2>1
<1>7. Head(q) = q[1] /\ q[1] \in Steps(a)
  BY <1>1, ElementOfSeq
<1> QED
  BY <1>1, <1>4, <1>5, <1>6, <1>7 DEF r

LEMMA KeepsRest ==
    ASSUME NEW a, NEW g, NEW q \in Seq(Steps(a)), q # <<>>, Keeps(a, q, g), NEW n \in Nat
    PROVE  Keeps(a, SubSeq(q, n + 2, Len(q)), g)
<1> DEFINE r == SubSeq(q, n + 2, Len(q))
<1>1. /\ Len(q) \in Nat \ {0} /\ Len(r) \in Nat
      /\ Len(r) = (IF n + 2 <= Len(q) THEN Len(q) - n - 1 ELSE 0)
      /\ \A j \in 1 .. Len(r) : r[j] = q[j + n + 1]
  BY RestOf
<1> HIDE DEF r
<1> SUFFICES ASSUME NEW j \in 1 .. Len(r)
             PROVE  \/ r[j] \in Keeping(a, g)
                    \/ /\ r[j] \in Passing(a) /\ Skipped(r[j], g) = 0
                       /\ j < Len(r) /\ r[j + 1] \in Setting(a, g)
  BY DEF Keeps, KeepsFrom, r
<1>2. (j + n + 1) \in 1 .. Len(q) /\ r[j] = q[j + n + 1]
  BY <1>1
<1>3. j + n + 1 < Len(q) => j < Len(r) /\ r[j + 1] = q[(j + n + 1) + 1]
  BY <1>1
<1> QED
  BY <1>2, <1>3 DEF Keeps, KeepsFrom

\* A first step that moves the bit away is followed by one that sets it.
LEMMA KeepsPair ==
    ASSUME NEW a, NEW g, NEW q \in Seq(Steps(a)), q # <<>>, Keeps(a, q, g), q[1] \notin Keeping(a, g)
    PROVE  q[1] \in Passing(a) /\ Skipped(q[1], g) = 0 /\ Reaches(a, SubSeq(q, 2, Len(q)), g)
<1> DEFINE r == SubSeq(q, 2, Len(q))
<1>1. /\ Len(q) \in Nat \ {0} /\ Len(r) \in Nat
      /\ Len(r) = (IF 2 <= Len(q) THEN Len(q) - 1 ELSE 0)
      /\ \A j \in 1 .. Len(r) : r[j] = q[j + 1]
  BY RestOf
<1>2. Keeps(a, r, g)
  <2>1. Keeps(a, SubSeq(q, 0 + 2, Len(q)), g)
    BY KeepsRest
  <2> QED
    BY <2>1
<1> HIDE DEF r
<1>3. /\ q[1] \in Passing(a) /\ Skipped(q[1], g) = 0
      /\ 1 < Len(q) /\ q[1 + 1] \in Setting(a, g)
  BY <1>1 DEF Keeps, KeepsFrom
<1>4. 1 \in 1 .. Len(r) /\ r[1] \in Setting(a, g)
  BY <1>1, <1>3
<1>5. KeepsFrom(a, r, g, 1 + 1)
  BY <1>1, <1>2 DEF Keeps, KeepsFrom
<1>6. Reaches(a, r, g)
  BY <1>4, <1>5 DEF Reaches
<1> QED
  BY <1>3, <1>6 DEF r

\* The first step of a row that reaches the goal sets the bit, or goes on to a row that does.
LEMMA ReachesRest ==
    ASSUME NEW a, NEW g, NEW q \in Seq(Steps(a)), q # <<>>, Reaches(a, q, g)
    PROVE  \/ q[1] \in Setting(a, g) /\ Keeps(a, SubSeq(q, 2, Len(q)), g)
           \/ /\ q[1] \in Passing(a)
              /\ \A n \in 0 .. Skipped(q[1], g) : Reaches(a, SubSeq(q, n + 2, Len(q)), g)
<1>0. PICK i \in 1 .. Len(q) :
         /\ q[i] \in Setting(a, g)
         /\ \A j \in 1 .. i - 1 : q[j] \in Passing(a) /\ j + Skipped(q[j], g) < i
         /\ KeepsFrom(a, q, g, i + 1)
  BY DEF Reaches
<1>1. Len(q) \in Nat \ {0} /\ q[1] \in Steps(a)
  BY RestOf
<1>2. CASE i = 1
  <2> DEFINE r == SubSeq(q, 2, Len(q))
  <2>1. /\ Len(r) \in Nat /\ Len(r) = (IF 2 <= Len(q) THEN Len(q) - 1 ELSE 0)
        /\ \A j \in 1 .. Len(r) : r[j] = q[j + 1]
    BY RestOf
  <2> HIDE DEF r
  <2>2. ASSUME NEW j \in 1 .. Len(r)
        PROVE  \/ r[j] \in Keeping(a, g)
               \/ /\ r[j] \in Passing(a) /\ Skipped(r[j], g) = 0
                  /\ j < Len(r) /\ r[j + 1] \in Setting(a, g)
    <3>1. j + 1 \in i + 1 .. Len(q) /\ r[j] = q[j + 1]
      BY <1>1, <1>2, <2>1
    <3>2. j + 1 < Len(q) => j < Len(r) /\ r[j + 1] = q[(j + 1) + 1]
      BY <1>1, <2>1
    <3> QED
      BY <1>0, <3>1, <3>2 DEF KeepsFrom
  <2>3. Keeps(a, r, g)
    BY <2>2 DEF Keeps, KeepsFrom
  <2> QED
    BY <1>0, <1>2, <2>3 DEF r
<1>3. CASE i # 1
  <2>1. q[1] \in Passing(a) /\ 1 + Skipped(q[1], g) < i /\ Skipped(q[1], g) \in Nat
    BY <1>0, <1>1, <1>3, SkippedType
  <2>2. ASSUME NEW n \in 0 .. Skipped(q[1], g) PROVE Reaches(a, SubSeq(q, n + 2, Len(q)), g)
    <3> DEFINE r == SubSeq(q, n + 2, Len(q))
    <3>1. /\ n \in Nat /\ Len(r) \in Nat /\ n + 1 < i
          /\ Len(r) = (IF n + 2 <= Len(q) THEN Len(q) - n - 1 ELSE 0)
          /\ \A j \in 1 .. Len(r) : r[j] = q[j + n + 1]
      BY <2>1, RestOf
    <3> HIDE DEF r
    <3> DEFINE k == i - n - 1
    <3>2. k \in 1 .. Len(r) /\ r[k] = q[i]
      BY <1>1, <3>1
    <3>3. ASSUME NEW j \in 1 .. k - 1 PROVE r[j] \in Passing(a) /\ j + Skipped(r[j], g) < k
      <4>1. j + n + 1 \in 1 .. i - 1 /\ r[j] = q[j + n + 1]
        BY <1>1, <3>1, <3>2
      <4>2. q[j + n + 1] \in Passing(a) /\ j + n + 1 + Skipped(q[j + n + 1], g) < i
        BY <1>0, <4>1
      <4>3. Skipped(q[j + n + 1], g) \in Nat
        BY <1>1, <4>1, ElementOfSeq, SkippedType
      <4> QED
        BY <3>1, <4>1, <4>2, <4>3
    <3>4. ASSUME NEW j \in k + 1 .. Len(r)
          PROVE  \/ r[j] \in Keeping(a, g)
                 \/ /\ r[j] \in Passing(a) /\ Skipped(r[j], g) = 0
                    /\ j < Len(r) /\ r[j + 1] \in Setting(a, g)
      <4>1. j + n + 1 \in i + 1 .. Len(q) /\ r[j] = q[j + n + 1]
        BY <1>1, <3>1, <3>2
      <4>2. j + n + 1 < Len(q) => j < Len(r) /\ r[j + 1] = q[(j + n + 1) + 1]
        BY <1>1, <3>1, <3>2
      <4> QED
        BY <1>0, <4>1, <4>2 DEF KeepsFrom
    <3>5. Reaches(a, r, g)
      <4> HIDE DEF k
      <4> QED
        BY <1>0, <3>2, <3>3, <3>4 DEF Reaches, KeepsFrom
    <3> QED
      BY <3>5 DEF r
  <2> QED
    BY <2>1, <2>2
<1> QED
  BY <1>2, <1>3
-----------------------------------------------------------------------------
(* What a step does to a goal.                                             *)

\* Where the call goes on after a step.
LEMMA GoesOn ==
    ASSUME StepsOK, DoStep
    PROVE  /\ todo # <<>> /\ next \in Steps(adapter) /\ next = todo[1] /\ ret_val = "success"
           /\ UNCHANGED <<adapter, cfg, call>> /\ (ignored => ignored')
           /\ \/ todo' = <<>> /\ (next.do \in Ends \/ (next.strict /\ next.do # "mac" /\ ret_val' = "error"))
              \/ \E n \in {0, next.skip} :
                   /\ todo' = SubSeq(todo, n + 2, Len(todo)) /\ ret_val' = ret_val
                   /\ n = 0 \/ next.do = "access" \/ (~next.strict /\ ignored' = TRUE)
<1>1. todo # <<>>
  BY DEF DoStep, MacWrite, PhyWrite, PhyWriteFails, ReadIgnored, AccessDone, AccessFails, Test, GiveUp,
     HwResetDone, HwResetFails, Restart, Next_is
<1>2. next \in Steps(adapter) /\ next = todo[1] /\ ret_val = "success" /\ next.skip \in Nat /\ next.strict \in BOOLEAN
  BY <1>1, RestOf DEF StepsOK, next, Steps
<1> DEFINE Rest(n) == SubSeq(todo, n + 2, Len(todo))
<1>3. CASE MacWrite \/ PhyWrite \/ ReadIgnored \/ HwResetDone
  <2>1. todo' = Rest(0) /\ UNCHANGED <<adapter, cfg, call, ret_val>>
    BY <1>3 DEF MacWrite, PhyWrite, ReadIgnored, HwResetDone, Advance, SkipTo
  <2>2. ignored => ignored'
    BY <1>3 DEF MacWrite, PhyWrite, ReadIgnored, HwResetDone
  <2> QED
    BY <1>1, <1>2, <2>1, <2>2
<1>4. CASE PhyWriteFails \/ AccessFails \/ GiveUp \/ HwResetFails
  <2>1. Fail /\ next.do # "mac"
    BY <1>4 DEF PhyWriteFails, AccessFails, GiveUp, HwResetFails, Next_is
  <2>2. CASE next.strict
    BY <1>1, <1>2, <2>1, <2>2 DEF Fail
  <2>3. CASE ~next.strict
    <3>1. todo' = Rest(next.skip) /\ ignored' = TRUE /\ UNCHANGED <<adapter, cfg, call, ret_val>>
      BY <2>1, <2>3 DEF Fail, SkipTo
    <3> QED
      BY <1>1, <1>2, <2>3, <3>1
  <2> QED
    BY <2>2, <2>3
<1>5. CASE AccessDone
  <2>1. todo' = Rest(0) \/ todo' = Rest(next.skip)
    BY <1>5 DEF AccessDone, SkipTo
  <2> QED
    BY <1>1, <1>2, <1>5, <2>1 DEF AccessDone, Next_is
<1>6. CASE Test
  <2>1. next.do \in Ends /\ (todo' = <<>> \/ todo' = Rest(0)) /\ UNCHANGED <<adapter, cfg, call, ret_val, ignored>>
    BY <1>6 DEF Test, SkipTo, Next_is, Ends
  <2> QED
    BY <1>1, <1>2, <2>1
<1>7. CASE Restart
  BY <1>1, <1>2, <1>7 DEF Restart, Next_is, Ends
<1> QED
  BY <1>3, <1>4, <1>5, <1>6, <1>7 DEF DoStep

\* What a step does to a register.
LEMMA Written ==
    ASSUME StepsOK, DoStep, NEW r \in Registers
    PROVE  \/ reg'[r] = reg[r]
           \/ next.do \in Edits \cup {"mac"} /\ next.reg = r /\ reg'[r] = Changed(reg[r])
           \/ next.do \in {"zero", "junk"} /\ next.reg = r /\ ignored' = TRUE
           \/ next.do = "commit" /\ r = "EXT_CTRL" /\ reg'[r] = reg[r] \ {"TX_CLK_25"}
           \/ next.do \in Resets /\ r \in DOMAIN PhyBits
           \/ next.do = "restart"
<1>0. reg \in [Registers -> SUBSET AllBits] /\ next \in Steps(adapter)
  BY GoesOn DEF StepsOK
<1>1. CASE MacWrite
  BY <1>0, <1>1 DEF MacWrite, RegIs, Next_is
<1>2. CASE PhyWrite
  <2>1. PICK after \in {{}, {"TX_CLK_25"}} :
          /\ after = {} \/ next.do = "commit"
          /\ reg' = [reg EXCEPT ![next.reg] = Changed(@), !["EXT_CTRL"] = IF next.reg = "EXT_CTRL"
                                                                     THEN Changed(@) ELSE @ \ after]
    BY <1>2 DEF PhyWrite
  <2>2. next.do \in Edits /\ (next.do = "commit" => next.reg = "PHY_CONTROL")
    BY <1>0, <1>2 DEF PhyWrite, Next_is, Edits, Steps
  <2>3. "EXT_CTRL" \in Registers
    BY DEF Registers, PhyBits
  <2>4. reg'[r] = IF r = next.reg THEN Changed(reg[r])
                  ELSE IF r = "EXT_CTRL" THEN reg[r] \ after ELSE reg[r]
    <3>1. \A x : Changed(Changed(x)) = Changed(x)
      BY DEF Changed
    <3> QED
      BY <1>0, <2>1, <2>3, <3>1
  <2> QED
    BY <2>1, <2>2, <2>4
<1>3. CASE PhyWriteFails
  BY <1>0, <1>3 DEF PhyWriteFails, RegIs, Next_is, Edits
<1>4. CASE ReadIgnored
  BY <1>0, <1>4 DEF ReadIgnored, RegIs, Next_is
<1>5. CASE AccessDone \/ AccessFails \/ Test \/ GiveUp
  BY <1>5 DEF AccessDone, AccessFails, Test, GiveUp
<1>6. CASE HwResetDone \/ HwResetFails
  BY <1>6 DEF HwResetDone, HwResetFails, PhyReset, AfterReset, Next_is, Resets
<1>7. CASE Restart
  BY <1>7 DEF Restart, Next_is
<1> QED
  BY <1>1, <1>2, <1>3, <1>4, <1>5, <1>6, <1>7 DEF DoStep

\* A step that keeps the bit keeps it, whatever comes of it.
LEMMA KeptByStep ==
    ASSUME StepsOK, DoStep, NEW g \in GoalType, next \in Keeping(adapter, g), ignored' => g.ign, Holds(g)
    PROVE  Holds(g)'
<1>1. g.reg \in Registers /\ g.to \in {0, 1}
  BY DEF GoalType
<1>2. CASE reg'[g.reg] = reg[g.reg]
  BY <1>2 DEF Holds
<1>3. CASE next.do \in Edits \cup {"mac"} /\ next.reg = g.reg /\ reg'[g.reg] = Changed(reg[g.reg])
  BY <1>1, <1>3 DEF Holds, Keeping, Changed
<1>4. CASE next.do = "commit" /\ g.reg = "EXT_CTRL" /\ reg'[g.reg] = reg[g.reg] \ {"TX_CLK_25"}
  BY <1>1, <1>4 DEF Holds, Keeping
<1>5. CASE next.do = "restart"
  <2>1. Restart
    BY <1>5 DEF DoStep, MacWrite, PhyWrite, PhyWriteFails, ReadIgnored, AccessDone, AccessFails, Test, GiveUp,
                HwResetDone, HwResetFails, Next_is
  <2>2. g.reg \in DOMAIN MacBits /\ (g.bit \in MacDefault[g.reg] <=> g.to = 1)
    BY <1>5 DEF Keeping
  <2>3. reg'[g.reg] = MacDefault[g.reg]
    BY <1>1, <2>1, <2>2 DEF Restart
  <2> QED
    BY <2>2, <2>3 DEF Holds
<1> QED
  BY <1>1, <1>2, <1>3, <1>4, <1>5, Written DEF Keeping, Edits

\* A step that sets the bit sets it, unless the call fails or an error is ignored.
LEMMA SetByStep ==
    ASSUME StepsOK, DoStep, NEW g \in GoalType, next \in Setting(adapter, g), ignored' => g.ign,
           ret_val' = "success"
    PROVE  Holds(g)' /\ todo' = SubSeq(todo, 2, Len(todo))
<1>0. /\ reg \in [Registers -> SUBSET AllBits] /\ next \in Steps(adapter) /\ ret_val = "success"
      /\ g.reg \in Registers /\ g.to \in {0, 1} /\ next.reg = g.reg
  BY GoesOn DEF StepsOK, GoalType, Setting
<1>1. MacWrite \/ PhyWrite
  <2>1. next.do = "mac" \/ next.do \in Edits
    BY DEF Setting
  <2>2. ~(AccessDone \/ AccessFails \/ Test \/ GiveUp \/ HwResetDone \/ HwResetFails \/ Restart)
    BY <2>1 DEF AccessDone, AccessFails, Test, GiveUp, HwResetDone, HwResetFails, Restart, Next_is, Edits
  <2>3. ~PhyWriteFails
    <3> SUFFICES ASSUME PhyWriteFails PROVE FALSE
      OBVIOUS
    <3>1. next.do \in Edits /\ next.do # "mac" /\ next.strict \in BOOLEAN
      BY <1>0 DEF PhyWriteFails, Next_is, Edits, Steps
    <3>2. CASE next.strict
      BY <3>1, <3>2 DEF PhyWriteFails, Fail, Setting
    <3>3. CASE ~next.strict
      BY <3>1, <3>3 DEF PhyWriteFails, Fail, Setting
    <3> QED
      BY <3>2, <3>3
  <2>4. ~ReadIgnored
    BY DEF ReadIgnored, Next_is, Setting
  <2> QED
    BY <2>2, <2>3, <2>4 DEF DoStep
<1>2. todo' = SubSeq(todo, 2, Len(todo))
  <2>1. SkipTo(0)
    BY <1>1 DEF MacWrite, PhyWrite, Advance
  <2> QED
    BY <2>1 DEF SkipTo
<1>3. reg'[g.reg] = Changed(reg[g.reg])
  <2>1. CASE MacWrite
    BY <1>0, <2>1 DEF MacWrite, RegIs
  <2>2. CASE PhyWrite
    <3>1. \A x : Changed(Changed(x)) = Changed(x)
      BY DEF Changed
    <3> QED
      BY <1>0, <2>2, <3>1 DEF PhyWrite
  <2> QED
    BY <1>1, <2>1, <2>2
<1> QED
  BY <1>0, <1>2, <1>3 DEF Holds, Setting, Changed

\* A row that reaches or keeps a goal does so after each of its steps.
LEMMA GoalStep ==
    ASSUME StepsOK, DoStep, NEW g \in GoalType, ignored' => g.ign, ret_val' = "success",
           Reaches(adapter, todo, g) \/ (Keeps(adapter, todo, g) /\ Holds(g))
    PROVE  Reaches(adapter, todo', g) \/ (Keeps(adapter, todo', g) /\ Holds(g)')
<1>1. /\ todo # <<>> /\ next \in Steps(adapter) /\ next = todo[1] /\ todo \in Seq(Steps(adapter))
      /\ next.skip \in Nat /\ next.strict \in BOOLEAN
  BY GoesOn DEF StepsOK, Steps
<1>2. ASSUME next \in Passing(adapter)
      PROVE  \E n \in 0 .. Skipped(next, g) : todo' = SubSeq(todo, n + 2, Len(todo))
  <2>1. ~(todo' = <<>> /\ (next.do \in Ends \/ (next.strict /\ next.do # "mac" /\ ret_val' = "error")))
    BY <1>2 DEF Passing, Ends, Edits
  <2>2. PICK n \in {0, next.skip} :
           /\ todo' = SubSeq(todo, n + 2, Len(todo))
           /\ n = 0 \/ next.do = "access" \/ (~next.strict /\ ignored' = TRUE)
    BY <2>1, GoesOn
  <2>3. n \in 0 .. Skipped(next, g)
    BY <1>1, <2>2 DEF Skipped
  <2> QED
    BY <2>2, <2>3
<1>3. CASE Reaches(adapter, todo, g)
  <2>1. CASE next \in Setting(adapter, g) /\ Keeps(adapter, SubSeq(todo, 2, Len(todo)), g)
    BY <2>1, SetByStep
  <2>2. CASE next \in Passing(adapter)
             /\ \A n \in 0 .. Skipped(next, g) : Reaches(adapter, SubSeq(todo, n + 2, Len(todo)), g)
    BY <1>2, <2>2
  <2> QED
    BY <1>1, <1>3, <2>1, <2>2, ReachesRest
<1>4. CASE Keeps(adapter, todo, g) /\ Holds(g)
  <2>1. CASE next \in Keeping(adapter, g)
    <3>1. Holds(g)'
      BY <1>4, <2>1, KeptByStep
    <3>2. todo' = <<>> \/ \E n \in Nat : todo' = SubSeq(todo, n + 2, Len(todo))
      BY <1>1, GoesOn
    <3>3. Keeps(adapter, todo', g)
      BY <1>1, <1>4, <3>2, NoSteps, KeepsRest
    <3> QED
      BY <3>1, <3>3
  <2>2. CASE next \notin Keeping(adapter, g)
    <3>1. /\ next \in Passing(adapter) /\ Skipped(next, g) = 0
          /\ Reaches(adapter, SubSeq(todo, 2, Len(todo)), g)
      BY <1>1, <1>4, <2>2, KeepsPair
    <3>2. todo' = SubSeq(todo, 2, Len(todo))
      BY <1>2, <3>1
    <3> QED
      BY <3>1, <3>2
  <2> QED
    BY <2>1, <2>2
<1> QED
  BY <1>3, <1>4
-----------------------------------------------------------------------------
(* The kinds of steps, and goals that need only be reached by a call that  *)
(* succeeds.                                                               *)

LEMMA RegisterNames ==
    /\ Registers = {"PHY_CONTROL", "PHY_AUTONEG_ADV", "PHY_1000T_CTRL", "PORT_CTRL", "PORT_CONFIG",
                    "POWER_MGMT", "SPEC_CTRL", "EXT_CTRL", "MDIX_CONTROL", "VR_CTRL", "KMRN_MODE",
                    "INBAND", "CTRL", "PHY_CTRL", "TIPG", "KMRN_DIAG", "KMRN_HD", "KMRN_INB"}
    /\ DOMAIN PhyBits = {"PHY_CONTROL", "PHY_AUTONEG_ADV", "PHY_1000T_CTRL", "PORT_CTRL", "PORT_CONFIG",
                    "POWER_MGMT", "SPEC_CTRL", "EXT_CTRL", "MDIX_CONTROL", "VR_CTRL", "KMRN_MODE",
                    "INBAND"}
  BY DEF Registers, PhyBits, MacBits

LEMMA BitNames ==
    /\ Bits("PHY_CONTROL") = {"AUTO_NEG_EN", "FULL_DUPLEX", "SPEED_100", "SPEED_1000", "POWER_DOWN"}
    /\ Bits("PHY_AUTONEG_ADV") = {"10/100"}
    /\ Bits("PHY_1000T_CTRL") = {"FD_CAPS", "MS_ENABLE", "MS_VALUE"}
    /\ Bits("PORT_CTRL") = {"AUTO_MDIX", "FORCE_MDI_MDIX"}
    /\ Bits("PORT_CONFIG") = {"SMART_SPEED"}
    /\ Bits("POWER_MGMT") = {"D0_LPLU", "D3_LPLU"}
    /\ Bits("SPEC_CTRL") = {"X_MODE_0", "X_MODE_1", "CRS_ON_TX", "POLARITY_REVERSAL"}
    /\ Bits("EXT_CTRL") = {"TX_CLK_25", "CRS_ON_TX"}
    /\ Bits("MDIX_CONTROL") = {"AUTO_MDIX", "FORCE_MDIX"}
    /\ Bits("VR_CTRL") = {"SHUTDOWN"}
    /\ Bits("KMRN_MODE") = {"PASS_FALSE_CARRIER"}
    /\ Bits("INBAND") = {"DIS_PADDING"}
    /\ Bits("CTRL") = {"SLU", "FRCSPD", "FRCDPX", "ASDE", "FD", "SPD_100", "SPD_1000"}
    /\ Bits("PHY_CTRL") = {"D0A_LPLU", "NOND0A_LPLU", "GBE_DISABLE"}
    /\ Bits("TIPG") = {"IPGT_1000"}
    /\ Bits("KMRN_DIAG") = {"NELPBK"}
    /\ Bits("KMRN_HD") = {"1000"}
    /\ Bits("KMRN_INB") = {"DIS_PADDING"}
  BY DEF Bits, PhyBits, MacBits

LEMMA BitsInAll == \A r \in Registers : Bits(r) \subseteq AllBits
  BY DEF AllBits

\* A step that changes a register of the PHY or the MAC.
LEMMA ChangeIs ==
    ASSUME NEW a, NEW g, NEW r \in Registers \ {"KMRN_DIAG"},
           NEW off \in SUBSET Bits(r), NEW on \in SUBSET Bits(r),
           NEW s \in {Edit(r, off, on), Mac(r, off, on)}
    PROVE  /\ s \in Steps(a) /\ <<s>> \in Seq(Steps(a)) /\ Passes(a, <<s>>, g)
           /\ (g.reg = r => IF g.to = 1 THEN g.bit \in on \/ g.bit \notin off ELSE g.bit \notin on)
                 => Keeps(a, <<s>>, g)
           /\ g.reg = r /\ (IF g.to = 1 THEN g.bit \in on ELSE g.bit \in off \ on) => Reaches(a, <<s>>, g)
<1>1. /\ s.do \in {"edit", "mac"} /\ s.reg = r /\ s.off = off /\ s.on = on
      /\ s.strict = TRUE /\ s.skip = 0
      /\ s \in [do : Edits \cup Resets \cup Ends \cup {"mac", "access", "fail"},
                reg : Registers \cup {"none"}, off : SUBSET AllBits, on : SUBSET AllBits,
                strict : BOOLEAN, skip : Nat]
  <2>1. on \in SUBSET AllBits /\ off \in SUBSET AllBits
    BY BitsInAll
  <2>2. CASE s = Edit(r, off, on)
    BY <2>1, <2>2 DEF Edit, Step, Edits
  <2>3. CASE s = Mac(r, off, on)
    BY <2>1, <2>3 DEF Mac, Step, Edits
  <2> QED
    BY <2>2, <2>3
<1>2. s \in Steps(a)
  BY <1>1 DEF Steps
<1>3. s \in Passing(a)
  BY <1>1, <1>2 DEF Passing, Ends
<1>4. (g.reg = r => IF g.to = 1 THEN g.bit \in on \/ g.bit \notin off ELSE g.bit \notin on)
          => s \in Keeping(a, g)
  BY <1>1, <1>2 DEF Keeping, Resets
<1>5. g.reg = r /\ (IF g.to = 1 THEN g.bit \in on ELSE g.bit \in off \ on) => s \in Setting(a, g)
  BY <1>1, <1>2 DEF Setting, Edits
<1> QED
  BY <1>1, <1>2, <1>3, <1>4, <1>5, OneStep

LEMMA CommitIs ==
    ASSUME NEW a, NEW g, NEW off \in SUBSET Bits("PHY_CONTROL"), NEW on \in SUBSET Bits("PHY_CONTROL")
    PROVE  LET s == Commit(off, on)
           IN  /\ s \in Steps(a) /\ <<s>> \in Seq(Steps(a)) /\ Passes(a, <<s>>, g)
               /\ g.reg \notin {"PHY_CONTROL", "EXT_CTRL"} => Keeps(a, <<s>>, g)
               /\ g.reg = "PHY_CONTROL" /\ (IF g.to = 1 THEN g.bit \in on ELSE g.bit \in off \ on)
                     => Reaches(a, <<s>>, g)
<1> DEFINE s == Commit(off, on)
<1>1. /\ s.do = "commit" /\ s.reg = "PHY_CONTROL" /\ s.off = off /\ s.on = on
      /\ s.strict = TRUE /\ s.skip = 0
      /\ s \in [do : Edits \cup Resets \cup Ends \cup {"mac", "access", "fail"},
                reg : Registers \cup {"none"}, off : SUBSET AllBits, on : SUBSET AllBits,
                strict : BOOLEAN, skip : Nat]
  <2>1. on \in SUBSET AllBits /\ off \in SUBSET AllBits /\ "PHY_CONTROL" \in Registers
    BY BitsInAll, RegisterNames
  <2> QED
    BY <2>1 DEF Commit, Step, Edits
<1> HIDE DEF s
<1>2. s \in Steps(a)
  BY <1>1, RegisterNames DEF Steps
<1>3. s \in Passing(a)
  BY <1>1, <1>2 DEF Passing, Ends
<1>4. g.reg \notin {"PHY_CONTROL", "EXT_CTRL"} => s \in Keeping(a, g)
  BY <1>1, <1>2 DEF Keeping, Resets
<1>5. g.reg = "PHY_CONTROL" /\ (IF g.to = 1 THEN g.bit \in on ELSE g.bit \in off \ on) => s \in Setting(a, g)
  BY <1>1, <1>2 DEF Setting, Edits
<1>6. /\ <<s>> \in Seq(Steps(a)) /\ Passes(a, <<s>>, g)
      /\ s \in Keeping(a, g) => Keeps(a, <<s>>, g)
      /\ s \in Setting(a, g) => Reaches(a, <<s>>, g)
  BY <1>1, <1>2, <1>3, OneStep
<1> QED
  BY <1>2, <1>4, <1>5, <1>6 DEF s

LEMMA AccessIs ==
    ASSUME NEW a, NEW g, NEW n \in Nat, NEW s \in {Access, Perhaps(n)}
    PROVE  /\ s \in Steps(a) /\ s.do = "access" /\ s.skip \in {0, n}
           /\ <<s>> \in Seq(Steps(a)) /\ Keeps(a, <<s>>, g)
           /\ s \in Passing(a)
           /\ s = Access => Passes(a, <<s>>, g)
<1>1. /\ s.do = "access" /\ s.reg = "none" /\ s.skip \in {0, n} /\ (s = Access => s.skip = 0)
      /\ s \in [do : Edits \cup Resets \cup Ends \cup {"mac", "access", "fail"},
                reg : Registers \cup {"none"}, off : SUBSET AllBits, on : SUBSET AllBits,
                strict : BOOLEAN, skip : Nat]
  <2>1. CASE s = Access
    BY <2>1 DEF Access, Do, Step
  <2>2. CASE s = Perhaps(n) /\ s # Access
    BY <2>2 DEF Access, Perhaps, Do, Step
  <2> QED
    BY <2>1, <2>2
<1>2. s \in Steps(a) /\ (s \in Passing(a)) /\ s \in Keeping(a, g)
  BY <1>1 DEF Steps, Passing, Keeping, Edits, Ends, Resets
<1> QED
  BY <1>1, <1>2, OneStep

\* The other steps without data.
LEMMA DoIs ==
    ASSUME NEW a, NEW g, NEW d \in Resets \cup Ends \cup {"fail"}
    PROVE  /\ Do(d) \in Steps(a) /\ Do(d).do = d /\ <<Do(d)>> \in Seq(Steps(a))
           /\ d \notin Ends => Passes(a, <<Do(d)>>, g)
           /\ d # "restart" /\ g.reg \notin DOMAIN PhyBits => Keeps(a, <<Do(d)>>, g)
<1>1. /\ Do(d).do = d /\ Do(d).reg = "none" /\ Do(d).skip = 0
      /\ Do(d) \in [do : Edits \cup Resets \cup Ends \cup {"mac", "access", "fail"},
                reg : Registers \cup {"none"}, off : SUBSET AllBits, on : SUBSET AllBits,
                strict : BOOLEAN, skip : Nat]
  BY DEF Do, Step
<1>2. Do(d) \in Steps(a)
  BY <1>1 DEF Steps, Edits, Resets, Ends
<1>3. d \notin Ends => Do(d) \in Passing(a)
  BY <1>1, <1>2 DEF Passing
<1>4. d # "restart" /\ g.reg \notin DOMAIN PhyBits => Do(d) \in Keeping(a, g)
  BY <1>1, <1>2 DEF Keeping, Edits, Resets, Ends
<1> QED
  BY <1>1, <1>2, <1>3, <1>4, OneStep

LEMMA UnreadIs ==
    ASSUME NEW a, NEW g, NEW r \in Registers \ {"KMRN_DIAG"},
           NEW off \in SUBSET Bits(r), NEW on \in SUBSET Bits(r), NEW word \in {"zero", "junk"}
    PROVE  LET s == EditUnread(r, off, on, word)
           IN  /\ s \in Steps(a) /\ <<s>> \in Seq(Steps(a)) /\ Passes(a, <<s>>, g)
               /\ g.reg # r => Keeps(a, <<s>>, g)
               /\ g.reg = r /\ ~g.ign /\ (IF g.to = 1 THEN g.bit \in on ELSE g.bit \in off \ on)
                     => Reaches(a, <<s>>, g)
<1> DEFINE s == EditUnread(r, off, on, word)
<1>1. /\ s.do = word /\ s.reg = r /\ s.off = off /\ s.on = on /\ s.strict = TRUE /\ s.skip = 0
      /\ s \in [do : Edits \cup Resets \cup Ends \cup {"mac", "access", "fail"},
                reg : Registers \cup {"none"}, off : SUBSET AllBits, on : SUBSET AllBits,
                strict : BOOLEAN, skip : Nat]
  <2>1. on \in SUBSET AllBits /\ off \in SUBSET AllBits
    BY BitsInAll
  <2> QED
    BY <2>1 DEF EditUnread, Step, Edits
<1> HIDE DEF s
<1>2. s \in Steps(a)
  BY <1>1 DEF Steps
<1>3. s \in Passing(a)
  BY <1>1, <1>2 DEF Passing, Ends
<1>4. g.reg # r => s \in Keeping(a, g)
  BY <1>1, <1>2 DEF Keeping, Resets
<1>5. g.reg = r /\ ~g.ign /\ (IF g.to = 1 THEN g.bit \in on ELSE g.bit \in off \ on) => s \in Setting(a, g)
  BY <1>1, <1>2 DEF Setting, Edits
<1>6. /\ <<s>> \in Seq(Steps(a)) /\ Passes(a, <<s>>, g)
      /\ s \in Keeping(a, g) => Keeps(a, <<s>>, g)
      /\ s \in Setting(a, g) => Reaches(a, <<s>>, g)
  BY <1>1, <1>2, <1>3, OneStep
<1> QED
  BY <1>2, <1>4, <1>5, <1>6 DEF s

\* Rows written as tuples.
LEMMA Tuples ==
    /\ \A s, t : <<s, t>> = <<s>> \o <<t>>
    /\ \A s, t, u : <<s, t, u>> = <<s, t>> \o <<u>>
    /\ \A s, t, u, v : <<s, t, u, v>> = <<s, t, u>> \o <<v>>
    /\ \A s, t, u, v, w : <<s, t, u, v, w>> = <<s, t, u, v>> \o <<w>>
<1>1. ASSUME NEW s, NEW t
      PROVE  <<s, t>> = <<s>> \o <<t>>
  <2> DEFINE S == {s, t}
  <2>1. <<s, t>> = Append(<<s>>, t) /\ <<s>> \in Seq(S) /\ t \in S
    OBVIOUS
  <2> HIDE DEF S
  <2> QED
    BY <2>1, AppendIsConcat
<1>2. ASSUME NEW s, NEW t, NEW u
      PROVE  <<s, t, u>> = <<s, t>> \o <<u>>
  <2> DEFINE S == {s, t, u}
  <2>1. <<s, t, u>> = Append(<<s, t>>, u) /\ <<s, t>> \in Seq(S) /\ u \in S
    OBVIOUS
  <2> HIDE DEF S
  <2> QED
    BY <2>1, AppendIsConcat
<1>3. ASSUME NEW s, NEW t, NEW u, NEW v
      PROVE  <<s, t, u, v>> = <<s, t, u>> \o <<v>>
  <2> DEFINE S == {s, t, u, v}
  <2>1. <<s, t, u, v>> = Append(<<s, t, u>>, v) /\ <<s, t, u>> \in Seq(S) /\ v \in S
    OBVIOUS
  <2> HIDE DEF S
  <2> QED
    BY <2>1, AppendIsConcat
<1>4. ASSUME NEW s, NEW t, NEW u, NEW v, NEW w
      PROVE  <<s, t, u, v, w>> = <<s, t, u, v>> \o <<w>>
  <2> DEFINE S == {s, t, u, v, w}
  <2>1. <<s, t, u, v, w>> = Append(<<s, t, u, v>>, w) /\ <<s, t, u, v>> \in Seq(S) /\ w \in S
    OBVIOUS
  <2> HIDE DEF S
  <2> QED
    BY <2>1, AppendIsConcat
<1> QED
  BY <1>1, <1>2, <1>3, <1>4

\* A row that what is read may skip.
LEMMA PerhapsRow ==
    ASSUME NEW a, NEW g, NEW q \in Seq(Steps(a)), Passes(a, q, g)
    PROVE  Passes(a, <<Perhaps(Len(q))>> \o q, g)
<1> DEFINE s == Perhaps(Len(q))
           r == <<s>> \o q
<1>1. /\ Len(q) \in Nat /\ s \in Steps(a) /\ s \in Passing(a) /\ s.skip \in {0, Len(q)} /\ s.do = "access"
      /\ <<s>> \in Seq(Steps(a)) /\ Len(<<s>>) = 1 /\ <<s>>[1] = s
  <2>1. Len(q) \in Nat
    OBVIOUS
  <2> QED
    BY <2>1, AccessIs
<1>2. Skipped(s, g) \in {0, Len(q)}
  BY <1>1 DEF Skipped
<1> HIDE DEF s
<1>3. /\ Len(r) = 1 + Len(q)
      /\ \A j \in 1 .. 1 + Len(q) : r[j] = IF j <= 1 THEN <<s>>[j] ELSE q[j - 1]
  BY <1>1, ConcatProperties
<1> HIDE DEF r
<1>4. ASSUME NEW j \in 1 .. Len(r) PROVE r[j] \in Passing(a) /\ j + Skipped(r[j], g) <= Len(r)
  <2>1. CASE j = 1
    BY <1>1, <1>2, <1>3, <2>1
  <2>2. CASE j # 1
    <3>1. j - 1 \in 1 .. Len(q) /\ r[j] = q[j - 1]
      BY <1>1, <1>3, <2>2
    <3>2. q[j - 1] \in Passing(a) /\ (j - 1) + Skipped(q[j - 1], g) <= Len(q) /\ q[j - 1] \in Steps(a)
      BY <3>1, ElementOfSeq DEF Passes
    <3> QED
      BY <1>1, <1>3, <3>1, <3>2, SkippedType
  <2> QED
    BY <2>1, <2>2
<1> QED
  BY <1>4 DEF Passes, r, s

\* A routine whose result is not looked at passes and keeps what its steps do.
LEMMA IgnoringRow ==
    ASSUME NEW a, NEW g, NEW q \in Seq(Steps(a))
    PROVE  /\ Ignoring(q) \in Seq(Steps(a)) /\ Len(Ignoring(q)) = Len(q)
           /\ Passes(a, q, g) => Passes(a, Ignoring(q), g)
           /\ (\A i \in 1 .. Len(q) : q[i] \in Keeping(a, g)) =>
                 Keeps(a, Ignoring(q), g) /\ \A i \in 1 .. Len(q) : Ignoring(q)[i] \in Keeping(a, g)
<1> DEFINE r == Ignoring(q)
<1>1. Len(q) \in Nat /\ DOMAIN q = 1 .. Len(q) /\ \A i \in 1 .. Len(q) : q[i] \in Steps(a)
  BY ElementOfSeq
<1>2. \A i \in 1 .. Len(q) : r[i] = [q[i] EXCEPT !.strict = FALSE, !.skip = Len(q) - i]
  BY <1>1 DEF Ignoring
<1>3. ASSUME NEW i \in 1 .. Len(q)
      PROVE  /\ r[i] \in Steps(a) /\ r[i].do = q[i].do /\ r[i].skip = Len(q) - i
             /\ q[i] \in Keeping(a, g) => r[i] \in Keeping(a, g)
             /\ q[i] \in Passing(a) => r[i] \in Passing(a)
  <2>1. Len(q) - i \in Nat /\ q[i] \in Steps(a)
    BY <1>1
  <2>2. /\ r[i].do = q[i].do /\ r[i].reg = q[i].reg /\ r[i].off = q[i].off /\ r[i].on = q[i].on
        /\ r[i].strict = FALSE /\ r[i].skip = Len(q) - i
        /\ r[i] \in [do : Edits \cup Resets \cup Ends \cup {"mac", "access", "fail"},
                     reg : Registers \cup {"none"}, off : SUBSET AllBits, on : SUBSET AllBits,
                     strict : BOOLEAN, skip : Nat]
    <3>1. q[i] \in [do : Edits \cup Resets \cup Ends \cup {"mac", "access", "fail"},
                   reg : Registers \cup {"none"}, off : SUBSET AllBits, on : SUBSET AllBits,
                   strict : BOOLEAN, skip : Nat]
      BY <2>1 DEF Steps
    <3> QED
      BY <1>2, <2>1, <3>1
  <2> HIDE DEF r
  <2>3. r[i] \in Steps(a)
    <3>1. /\ q[i].do \in Edits \cup {"mac"} => q[i].reg \in Registers /\ q[i].on \subseteq Bits(q[i].reg)
          /\ q[i].do = "commit" => q[i].reg = "PHY_CONTROL"
          /\ q[i].reg = "KMRN_DIAG" =>
               a = [mac |-> "ich8", phy |-> "igp_3"] /\ q[i].do = "edit" /\ "NELPBK" \in q[i].off \cup q[i].on
      BY <2>1 DEF Steps
    <3> QED
      BY <2>2, <3>1 DEF Steps
  <2>4. q[i] \in Keeping(a, g) => r[i] \in Keeping(a, g)
    <3> DEFINE Keeper(s) ==
                /\ s.do \in Edits \cup {"mac"} /\ s.reg = g.reg =>
                      /\ IF g.to = 1 THEN g.bit \in s.on \/ g.bit \notin s.off ELSE g.bit \notin s.on
                      /\ g.ign => s.do \notin {"zero", "junk"}
                /\ s.do = "commit" => g.reg # "EXT_CTRL" \/ g.bit # "TX_CLK_25" \/ g.to = 0
                /\ s.do \in Resets => g.reg \notin DOMAIN PhyBits
                /\ s.do = "restart" =>
                      g.reg \in DOMAIN MacBits /\ (g.bit \in MacDefault[g.reg] <=> g.to = 1)
    <3>1. \A s \in Steps(a) : s \in Keeping(a, g) <=> Keeper(s)
      BY DEF Keeping
    <3>2. Keeper(q[i]) <=> Keeper(r[i])
      BY <2>2
    <3> HIDE DEF Keeper
    <3> QED
      BY <2>1, <2>3, <3>1, <3>2
  <2> QED
    BY <2>2, <2>3, <2>4 DEF Passing
<1>4. r \in Seq(Steps(a)) /\ Len(r) = Len(q)
  <2>1. r \in [1 .. Len(q) -> Steps(a)]
    BY <1>1, <1>3 DEF Ignoring
  <2> HIDE DEF r
  <2>2. r \in Seq(Steps(a))
    BY <1>1, <2>1, SeqDef
  <2> QED
    BY <1>1, <2>1, <2>2, LenProperties
<1> HIDE DEF r
<1>5. Passes(a, q, g) => Passes(a, r, g)
  <2> SUFFICES ASSUME Passes(a, q, g), NEW j \in 1 .. Len(r)
               PROVE  r[j] \in Passing(a) /\ j + Skipped(r[j], g) <= Len(r)
    BY DEF Passes
  <2>1. r[j] \in Passing(a) /\ r[j].skip = Len(q) - j
    BY <1>3, <1>4 DEF Passes
  <2> QED
    BY <1>1, <1>4, <2>1 DEF Skipped
<1>6. (\A i \in 1 .. Len(q) : q[i] \in Keeping(a, g)) =>
         Keeps(a, r, g) /\ \A i \in 1 .. Len(q) : r[i] \in Keeping(a, g)
  BY <1>3, <1>4 DEF Keeps, KeepsFrom
<1> QED
  BY <1>4, <1>5, <1>6 DEF r
-----------------------------------------------------------------------------
(* The routines: rows that go on to what comes after them, those of them   *)
(* that keep the bit where it is to be, and those that put it there.       *)

Rows(a, g)   == {q \in Seq(Steps(a)) : Passes(a, q, g)}
KeepRows(a, g) == {q \in Rows(a, g) : Keeps(a, q, g)}
SetRows(a, g)  == {q \in Rows(a, g) : Reaches(a, q, g)}

LEMMA RowsCat ==
    ASSUME NEW a, NEW g
    PROVE  /\ <<>> \in KeepRows(a, g) /\ KeepRows(a, g) \subseteq Rows(a, g) /\ SetRows(a, g) \subseteq Rows(a, g)
           /\ \A p, q \in Rows(a, g) :
                 /\ p \o q \in Rows(a, g)
                 /\ p \in KeepRows(a, g) /\ q \in KeepRows(a, g) => p \o q \in KeepRows(a, g)
                 /\ p \in SetRows(a, g) /\ q \in KeepRows(a, g) => p \o q \in SetRows(a, g)
                 /\ q \in SetRows(a, g) => p \o q \in SetRows(a, g)
<1>1. <<>> \in KeepRows(a, g)
  BY NoSteps DEF KeepRows, Rows
<1>2. ASSUME NEW p \in Rows(a, g), NEW q \in Rows(a, g)
      PROVE  /\ p \o q \in Rows(a, g)
             /\ p \in KeepRows(a, g) /\ q \in KeepRows(a, g) => p \o q \in KeepRows(a, g)
             /\ p \in SetRows(a, g) /\ q \in KeepRows(a, g) => p \o q \in SetRows(a, g)
             /\ q \in SetRows(a, g) => p \o q \in SetRows(a, g)
  <2>1. p \in Seq(Steps(a)) /\ q \in Seq(Steps(a)) /\ Passes(a, p, g) /\ Passes(a, q, g)
    BY DEF Rows
  <2>2. p \o q \in Rows(a, g)
    BY <2>1, PassesCat, ConcatProperties DEF Rows
  <2> QED
    BY <2>1, <2>2, KeepsCat, ReachesKept, ReachesPassed DEF KeepRows, SetRows
<1> QED
  BY <1>1, <1>2 DEF KeepRows, SetRows

LEMMA WhenRow ==
    ASSUME NEW a, NEW g, NEW b \in BOOLEAN, NEW q
    PROVE  /\ (b => q \in Rows(a, g)) => When(b, q) \in Rows(a, g)
           /\ (b => q \in KeepRows(a, g)) => When(b, q) \in KeepRows(a, g)
  BY RowsCat DEF When

LEMMA ChangeRow ==
    ASSUME NEW a, NEW g \in GoalType, NEW r \in Registers \ {"KMRN_DIAG"},
           NEW off \in SUBSET Bits(r), NEW on \in SUBSET Bits(r),
           NEW s \in {Edit(r, off, on), Mac(r, off, on)}
    PROVE  /\ s \in Steps(a) /\ <<s>> \in Rows(a, g)
           /\ (g.reg = r => IF g.to = 1 THEN g.bit \in on \/ g.bit \notin off ELSE g.bit \notin on)
                 => <<s>> \in KeepRows(a, g)
           /\ g.reg = r /\ (IF g.to = 1 THEN g.bit \in on ELSE g.bit \in off \ on) => <<s>> \in SetRows(a, g)
  BY ChangeIs DEF Rows, KeepRows, SetRows

LEMMA CommitRow ==
    ASSUME NEW a, NEW g \in GoalType, NEW off \in SUBSET Bits("PHY_CONTROL"), NEW on \in SUBSET Bits("PHY_CONTROL")
    PROVE  LET q == <<Commit(off, on)>>
           IN  /\ q \in Rows(a, g)
               /\ g.reg \notin {"PHY_CONTROL", "EXT_CTRL"} => q \in KeepRows(a, g)
               /\ g.reg = "PHY_CONTROL" /\ (IF g.to = 1 THEN g.bit \in on ELSE g.bit \in off \ on)
                     => q \in SetRows(a, g)
  BY CommitIs DEF Rows, KeepRows, SetRows

LEMMA UnreadRow ==
    ASSUME NEW a, NEW g \in GoalType, NEW r \in Registers \ {"KMRN_DIAG"},
           NEW off \in SUBSET Bits(r), NEW on \in SUBSET Bits(r), NEW word \in {"zero", "junk"}
    PROVE  LET s == EditUnread(r, off, on, word)
           IN  /\ s \in Steps(a) /\ <<s>> \in Rows(a, g)
               /\ g.reg # r => <<s>> \in KeepRows(a, g)
               /\ g.reg = r /\ ~g.ign /\ (IF g.to = 1 THEN g.bit \in on ELSE g.bit \in off \ on)
                     => <<s>> \in SetRows(a, g)
  BY UnreadIs DEF Rows, KeepRows, SetRows

LEMMA AccessRows ==
    ASSUME NEW a, NEW g \in GoalType
    PROVE  /\ Access \in Steps(a) /\ <<Access>> \in KeepRows(a, g)
           /\ <<Access, Access>> \in KeepRows(a, g) /\ <<Access, Access, Access>> \in KeepRows(a, g)
           /\ Perhaps(1) \in Steps(a) /\ Perhaps(2) \in Steps(a)
<1>1. Access \in Steps(a) /\ <<Access>> \in KeepRows(a, g)
  <2>1. 0 \in Nat
    OBVIOUS
  <2> QED
    BY <2>1, AccessIs DEF Rows, KeepRows
<1>2. <<Access, Access>> = <<Access>> \o <<Access>>
  BY Tuples
<1>5. <<Access, Access, Access>> = <<Access, Access>> \o <<Access>>
  BY Tuples
<1>3. <<Access, Access>> \in KeepRows(a, g)
  BY <1>1, <1>2, RowsCat
<1>4. Perhaps(1) \in Steps(a) /\ Perhaps(2) \in Steps(a)
  <2>1. 1 \in Nat /\ 2 \in Nat
    OBVIOUS
  <2> QED
    BY <2>1, AccessIs
<1> QED
  BY <1>1, <1>3, <1>4, <1>5, RowsCat

LEMMA PerhapsKeeps ==
    ASSUME NEW a, NEW g \in GoalType, NEW q \in KeepRows(a, g)
    PROVE  <<Perhaps(Len(q))>> \o q \in KeepRows(a, g)
<1>1. Len(q) \in Nat /\ q \in Seq(Steps(a)) /\ Passes(a, q, g) /\ Keeps(a, q, g)
  BY DEF KeepRows, Rows
<1>2. <<Perhaps(Len(q))>> \in Seq(Steps(a)) /\ Keeps(a, <<Perhaps(Len(q))>>, g)
  BY <1>1, AccessIs
<1> QED
  BY <1>1, <1>2, PerhapsRow, KeepsCat, ConcatProperties DEF Rows, KeepRows

\* What there is to set up.
LEMMA Kinds ==
    ASSUME TypeOK, NEW c \in Configs[adapter]
    PROVE  /\ adapter \in [mac : {"ich8", "ich9"}, phy : {"igp_3", "ife", "bm"}]
                        \cup [mac : {"82571"}, phy : {"igp_2", "m88", "bm"}]
                        \cup [mac : {"80003"}, phy : {"gg82563"}]
           /\ c \in [autoneg : BOOLEAN, advertised : {"all", "10/100", "1000"}, speed : {10, 100},
                     full : BOOLEAN, mdix : 0 .. 3, ms_type : {"default", "master", "slave", "auto"},
                     smart_speed : {"default", "on", "off"}, disable_polarity_correction : BOOLEAN,
                     reset_disable : BOOLEAN, wait : BOOLEAN]
  BY AdaptersAssumption, ConfigsAssumption DEF TypeOK

LEMMA KumeranTimeoutsRow ==
    ASSUME TypeOK, NEW g \in GoalType
    PROVE  /\ KumeranTimeouts \in Rows(adapter, g)
           /\ g.reg # "KMRN_INB" => KumeranTimeouts \in KeepRows(adapter, g)
           /\ adapter.mac = "80003" /\ g.reg = "KMRN_INB" /\ g.bit = "DIS_PADDING" /\ g.to = 1
                 => KumeranTimeouts \in SetRows(adapter, g)
<1> DEFINE s == <<Edit("KMRN_INB", {}, {"DIS_PADDING"})>>
           b == adapter.mac # "82571"
           d == adapter.mac = "80003"
           p == When(b, <<Access, Access>>)
           q == When(d, s)
<1>1. /\ s \in Rows(adapter, g) /\ (g.reg # "KMRN_INB" => s \in KeepRows(adapter, g))
      /\ g.reg = "KMRN_INB" /\ g.bit = "DIS_PADDING" /\ g.to = 1 => s \in SetRows(adapter, g)
  BY RegisterNames, BitNames, ChangeRow
<1>2. p \in KeepRows(adapter, g)
  BY AccessRows, WhenRow
<1>3. /\ q \in Rows(adapter, g) /\ (g.reg # "KMRN_INB" => q \in KeepRows(adapter, g))
      /\ d => q = s
  BY <1>1, WhenRow DEF When
<1>4. KumeranTimeouts = p \o q
  BY DEF KumeranTimeouts
<1> HIDE DEF p, q, s
<1>5. p \in Rows(adapter, g)
  BY <1>2, RowsCat
<1> QED
  BY <1>1, <1>2, <1>3, <1>4, <1>5, RowsCat

LEMMA OneOfRow ==
    ASSUME NEW a, NEW g, NEW s \in Steps(a), <<s>> \in Rows(a, g)
    PROVE  /\ s \in Passing(a) /\ Skipped(s, g) = 0
           /\ <<s>> \in KeepRows(a, g) => s \in Keeping(a, g)
<1> DEFINE q == <<s>>
<1>1. Len(q) = 1 /\ q[1] = s
  OBVIOUS
<1>2. Skipped(s, g) \in Nat
  BY SkippedType
<1> HIDE DEF q
<1>3. q \in Rows(a, g)
  BY DEF q
<1>4. s \in Passing(a) /\ 1 + Skipped(s, g) <= 1
  <2>1. 1 \in 1 .. Len(q) /\ Passes(a, q, g)
    BY <1>1, <1>3 DEF Rows
  <2>2. q[1] \in Passing(a) /\ 1 + Skipped(q[1], g) <= Len(q)
    BY <2>1 DEF Passes
  <2> QED
    BY <1>1, <2>2
<1>5. q \in KeepRows(a, g) => s \in Keeping(a, g)
  <2> SUFFICES ASSUME q \in KeepRows(a, g) PROVE s \in Keeping(a, g)
    OBVIOUS
  <2>1. 1 \in 1 .. Len(q) /\ KeepsFrom(a, q, g, 1)
    BY <1>1 DEF KeepRows, Keeps
  <2>2. q[1] \in Keeping(a, g) \/ 1 < Len(q)
    BY <2>1 DEF KeepsFrom
  <2> QED
    BY <1>1, <2>2
<1> QED
  BY <1>2, <1>4, <1>5 DEF q

\* A row is what its steps are.
LEMMA EachRow ==
    ASSUME NEW a, NEW g, NEW n \in Nat, NEW q, q \in [1 .. n -> Steps(a)],
           \A i \in 1 .. n : <<q[i]>> \in Rows(a, g)
    PROVE  /\ q \in Rows(a, g) /\ Len(q) = n
           /\ (\A i \in 1 .. n : <<q[i]>> \in KeepRows(a, g)) => q \in KeepRows(a, g)
<1>1. q \in Seq(Steps(a)) /\ Len(q) = n
  <2>1. q \in Seq(Steps(a))
    BY SeqDef
  <2> QED
    BY <2>1, LenProperties
<1>3. \A i \in 1 .. n : q[i] \in Passing(a) /\ Skipped(q[i], g) = 0
  BY OneOfRow
<1>4. \A i \in 1 .. n : <<q[i]>> \in KeepRows(a, g) => q[i] \in Keeping(a, g)
  BY OneOfRow
<1>5. q \in Rows(a, g)
  BY <1>1, <1>3 DEF Rows, Passes
<1> QED
  BY <1>1, <1>4, <1>5 DEF KeepRows, Keeps, KeepsFrom

LEMMA HwResetRow ==
    ASSUME NEW g \in GoalType
    PROVE  /\ HwReset \in Rows(adapter, g)
           /\ g.reg \notin DOMAIN PhyBits =>
                 HwReset \in KeepRows(adapter, g) /\ HwReset \in Seq(Keeping(adapter, g))
<1> DEFINE n == Len(NvmConfig)
           nvm == [i \in DOMAIN NvmConfig |-> Write(NvmConfig[i][1], NvmConfig[i][2])]
           lcd == <<Perhaps(n)>> \o nvm
           b == Is82566
<1>1. n \in Nat /\ DOMAIN NvmConfig = 1 .. n
  BY NvmAssumption
<1>2. ASSUME NEW i \in 1 .. n
      PROVE  /\ nvm[i] \in Steps(adapter) /\ <<nvm[i]>> \in Rows(adapter, g)
             /\ g.reg \notin DOMAIN PhyBits => <<nvm[i]>> \in KeepRows(adapter, g)
  <2> DEFINE r == NvmConfig[i][1]
             on == NvmConfig[i][2]
  <2>1. r \in DOMAIN PhyBits /\ on \subseteq Bits(r)
    <3> DEFINE S == DOMAIN PhyBits
               T == SUBSET AllBits
    <3>1. NvmConfig[i] \in S \X T /\ on \subseteq PhyBits[r]
      <4>1. NvmConfig \in Seq(S \X T) /\ i \in 1 .. Len(NvmConfig) /\ i \in DOMAIN NvmConfig
        BY <1>1, NvmAssumption
      <4>2. on \subseteq PhyBits[r]
        BY <4>1, NvmAssumption
      <4> HIDE DEF S, T, r, on
      <4> QED
        BY <4>1, <4>2, ElementOfSeq
    <3>2. r \in S
      <4> HIDE DEF S, T
      <4> QED
        BY <3>1
    <3> QED
      BY <3>1, <3>2 DEF Bits
  <2>2. nvm[i] = Edit(r, Bits(r), on)
    BY <1>1 DEF Write
  <2>3. r \in Registers \ {"KMRN_DIAG"}
    BY <2>1, RegisterNames
  <2> HIDE DEF r, on, nvm
  <2> QED
    BY <2>1, <2>2, <2>3, ChangeRow
<1>3. nvm \in [1 .. n -> Steps(adapter)]
  BY <1>1, <1>2
<1>4. nvm \in Rows(adapter, g) /\ Len(nvm) = n /\ (g.reg \notin DOMAIN PhyBits => nvm \in KeepRows(adapter, g))
  <2> HIDE DEF nvm, n
  <2> QED
    BY <1>1, <1>2, <1>3, EachRow
<1>5. <<Do("reset")>> \in Rows(adapter, g) /\ (g.reg \notin DOMAIN PhyBits => <<Do("reset")>> \in KeepRows(adapter, g))
  BY DoIs DEF Rows, KeepRows, Resets, Ends
<1>6. lcd \in Rows(adapter, g) /\ (g.reg \notin DOMAIN PhyBits => lcd \in KeepRows(adapter, g))
  <2> HIDE DEF nvm, n
  <2>1. /\ nvm \in Seq(Steps(adapter)) /\ Passes(adapter, nvm, g)
    BY <1>4 DEF Rows
  <2>2. <<Perhaps(n)>> \in Seq(Steps(adapter)) /\ Passes(adapter, lcd, g)
    BY <1>1, <1>4, <2>1, AccessIs, PerhapsRow
  <2>3. lcd \in Rows(adapter, g)
    BY <2>1, <2>2, ConcatProperties DEF Rows
  <2> QED
    BY <1>4, <2>3, PerhapsKeeps
<1>7. HwReset = <<Do("reset")>> \o When(b, lcd)
  BY DEF HwReset
<1>8. b \in BOOLEAN
  BY DEF Is82566
<1>10. g.reg \notin DOMAIN PhyBits => HwReset \in Seq(Keeping(adapter, g))
  <2> SUFFICES ASSUME g.reg \notin DOMAIN PhyBits PROVE HwReset \in Seq(Keeping(adapter, g))
    OBVIOUS
  <2> DEFINE K == Keeping(adapter, g)
  <2>1. nvm \in Seq(K)
    <3>1. \A i \in 1 .. n : nvm[i] \in K
      <4> HIDE DEF nvm, n
      <4> QED
        BY <1>2, OneOfRow
    <3>2. nvm \in [1 .. n -> K]
      BY <1>1, <3>1
    <3> HIDE DEF nvm, n, K
    <3> QED
      BY <1>1, <3>2, SeqDef
  <2>2. Do("reset") \in K /\ Perhaps(n) \in K
    <3>1. Do("reset") \in Steps(adapter) /\ <<Do("reset")>> \in Rows(adapter, g) /\ <<Do("reset")>> \in KeepRows(adapter, g)
      BY <1>5, DoIs DEF Resets
    <3>2. Perhaps(n) \in Steps(adapter) /\ Perhaps(n).do = "access"
      BY <1>1, AccessIs
    <3> HIDE DEF n
    <3> QED
      BY <3>1, <3>2, OneOfRow DEF Keeping, Edits, Resets
  <2> DEFINE first == <<Do("reset")>>
             perhaps == <<Perhaps(n)>>
  <2>3. first \in Seq(K) /\ perhaps \in Seq(K) /\ <<>> \in Seq(K)
    <3> HIDE DEF n, K
    <3> QED
      BY <2>2
  <2>4. lcd = perhaps \o nvm /\ HwReset = first \o When(b, lcd)
    BY <1>7
  <2> HIDE DEF nvm, n, K, first, perhaps, lcd, b
  <2>5. lcd \in Seq(K)
    BY <2>1, <2>3, <2>4, ConcatProperties
  <2>6. When(b, lcd) \in Seq(K)
    BY <2>3, <2>5 DEF When
  <2>7. first \o When(b, lcd) \in Seq(K)
    BY <2>3, <2>6, ConcatProperties
  <2> QED
    BY <2>4, <2>7 DEF K
<1> HIDE DEF lcd, b
<1>9. When(b, lcd) \in Rows(adapter, g) /\ (g.reg \notin DOMAIN PhyBits => When(b, lcd) \in KeepRows(adapter, g))
  BY <1>6, <1>8, WhenRow
<1> QED
  BY <1>5, <1>7, <1>9, <1>10, RowsCat

\* SmartSpeed is set to what is asked for, if anything is.
LEMMA SmartSpeedRow ==
    ASSUME TypeOK, NEW c \in Configs[adapter], NEW g \in GoalType
    PROVE  /\ SmartSpeed(c) \in Rows(adapter, g)
           /\ g.reg # "PORT_CONFIG" => SmartSpeed(c) \in KeepRows(adapter, g)
           /\ (/\ c.smart_speed # "default" /\ g.reg = "PORT_CONFIG" /\ g.bit = "SMART_SPEED"
               /\ g.to = 1 <=> c.smart_speed = "on")
                => SmartSpeed(c) \in SetRows(adapter, g)
<1>0. /\ "PORT_CONFIG" \in Registers \ {"KMRN_DIAG"}
      /\ {} \in SUBSET Bits("PORT_CONFIG") /\ {"SMART_SPEED"} \in SUBSET Bits("PORT_CONFIG")
  BY RegisterNames, BitNames
<1>1. CASE c.smart_speed = "on"
  <2>1. SmartSpeed(c) = <<Edit("PORT_CONFIG", {}, {"SMART_SPEED"})>>
    BY <1>1 DEF SmartSpeed
  <2> DEFINE s == Edit("PORT_CONFIG", {}, {"SMART_SPEED"})
  <2>2. /\ <<s>> \in Rows(adapter, g) /\ (g.reg # "PORT_CONFIG" => <<s>> \in KeepRows(adapter, g))
        /\ g.reg = "PORT_CONFIG" /\ g.bit = "SMART_SPEED" /\ g.to = 1 => <<s>> \in SetRows(adapter, g)
    BY <1>0, ChangeRow
  <2> HIDE DEF s
  <2> QED
    BY <1>1, <2>1, <2>2 DEF s
<1>2. CASE c.smart_speed = "off"
  <2>1. SmartSpeed(c) = <<Edit("PORT_CONFIG", {"SMART_SPEED"}, {})>>
    BY <1>2 DEF SmartSpeed
  <2> DEFINE s == Edit("PORT_CONFIG", {"SMART_SPEED"}, {})
  <2>2. /\ <<s>> \in Rows(adapter, g) /\ (g.reg # "PORT_CONFIG" => <<s>> \in KeepRows(adapter, g))
        /\ g.reg = "PORT_CONFIG" /\ g.bit = "SMART_SPEED" /\ g.to # 1 => <<s>> \in SetRows(adapter, g)
    BY <1>0, ChangeRow
  <2> HIDE DEF s
  <2> QED
    BY <1>2, <2>1, <2>2 DEF s
<1>3. CASE c.smart_speed = "default"
  <2>1. SmartSpeed(c) = <<>>
    BY <1>3 DEF SmartSpeed
  <2> QED
    BY <1>3, <2>1, RowsCat
<1> QED
  BY <1>1, <1>2, <1>3, Kinds

LEMMA D0LpluOffRow ==
    ASSUME TypeOK, NEW c \in Configs[adapter], NEW g \in GoalType
    PROVE  /\ D0LpluOff(c) \in Rows(adapter, g)
           /\ g.reg \notin {"PHY_CTRL", "POWER_MGMT", "PORT_CONFIG"} => D0LpluOff(c) \in KeepRows(adapter, g)
<1> DEFINE m == Mac("PHY_CTRL", {"D0A_LPLU"}, {})
           e == Edit("POWER_MGMT", {"D0_LPLU"}, {})
           q == SmartSpeed(c)
           K == g.reg \notin {"PHY_CTRL", "POWER_MGMT", "PORT_CONFIG"}
           Good(p) == p \in Rows(adapter, g) /\ (K => p \in KeepRows(adapter, g))
<1>1. Good(<<m>>) /\ Good(<<e>>)
  BY RegisterNames, BitNames, ChangeRow
<1>2. Good(q)
  BY SmartSpeedRow
<1>3. Good(Ignoring(<<e>>))
  <2>1. /\ <<e>> \in Seq(Steps(adapter)) /\ Passes(adapter, <<e>>, g) /\ Len(<<e>>) = 1 /\ <<e>>[1] = e
    BY <1>1 DEF Rows
  <2>2. e \in Steps(adapter) /\ (K => e \in Keeping(adapter, g))
    <3>1. e \in Steps(adapter)
      BY RegisterNames, BitNames, ChangeRow
    <3> HIDE DEF e
    <3> QED
      BY <1>1, <3>1, OneOfRow
  <2> HIDE DEF e, K
  <2>3. K => \A i \in 1 .. Len(<<e>>) : <<e>>[i] \in Keeping(adapter, g)
    BY <2>1, <2>2
  <2> QED
    BY <2>1, <2>3, IgnoringRow DEF Rows, KeepRows
<1>4. Good(<<Access>>)
  BY AccessRows, RowsCat
<1>5. Good(When(adapter.phy # "ife", <<m>> \o q))
  <2> HIDE DEF m, q, K
  <2>1. Good(<<m>> \o q)
    BY <1>1, <1>2, RowsCat
  <2> HIDE DEF Good
  <2> QED
    BY <2>1, WhenRow DEF Good
<1>6. Good(<<Access>> \o Ignoring(<<e>>) \o q)
  <2> HIDE DEF e, q, K
  <2>1. Good(<<Access>> \o Ignoring(<<e>>))
    BY <1>3, <1>4, RowsCat
  <2> QED
    BY <1>2, <2>1, RowsCat
<1>7. \/ D0LpluOff(c) = When(adapter.phy # "ife", <<m>> \o q)
      \/ D0LpluOff(c) = <<e>>
      \/ D0LpluOff(c) = <<Access>> \o Ignoring(<<e>>) \o q
      \/ D0LpluOff(c) = <<>>
  BY DEF D0LpluOff
<1>8. Good(<<>>)
  BY RowsCat
<1> HIDE DEF m, e, q
<1> QED
  BY <1>1, <1>5, <1>6, <1>7, <1>8

\* The crossover mode asked for.
LEMMA CrossoverRow ==
    ASSUME NEW a, NEW g \in GoalType, NEW r \in Registers \ {"KMRN_DIAG"}, NEW auto \in Bits(r), NEW force \in Bits(r),
           auto # force, NEW mdix \in 0 .. 3
    PROVE  LET q == <<Crossover(r, auto, force, mdix)>>
           IN  /\ q \in Rows(a, g)
               /\ g.reg # r => q \in KeepRows(a, g)
               /\ g \in ModeGoals(r, auto, force, mdix) => q \in SetRows(a, g)
<1> DEFINE off == {auto} \cup (IF mdix = 1 THEN {force} ELSE {})
           on == CASE mdix = 1 -> {} [] mdix = 2 -> {force} [] OTHER -> {auto}
<1>1. off \in SUBSET Bits(r) /\ on \in SUBSET Bits(r)
  OBVIOUS
<1>2. g \in ModeGoals(r, auto, force, mdix) =>
         g.reg = r /\ (IF g.to = 1 THEN g.bit \in on ELSE g.bit \in off \ on)
  BY DEF ModeGoals, Goal, If
<1>3. Crossover(r, auto, force, mdix) = Edit(r, off, on)
  BY DEF Crossover
<1> HIDE DEF off, on
<1> QED
  BY <1>1, <1>2, <1>3, ChangeRow

LEMMA MasterSlaveRow ==
    ASSUME TypeOK, NEW c \in Configs[adapter], NEW g \in GoalType
    PROVE  LET q == <<MasterSlave(c)>>
           IN  /\ q \in Rows(adapter, g)
               /\ g.reg # "PHY_1000T_CTRL" => q \in KeepRows(adapter, g)
               /\ c.ms_type # "default" /\ g = Goal("PHY_1000T_CTRL", "MS_ENABLE", c.ms_type # "auto")
                     => q \in SetRows(adapter, g)
<1> DEFINE off == CASE c.ms_type = "slave" -> {"MS_VALUE"} [] c.ms_type = "auto" -> {"MS_ENABLE"} [] OTHER -> {}
           on == CASE c.ms_type = "master" -> {"MS_ENABLE", "MS_VALUE"}
                   [] c.ms_type = "slave" -> {"MS_ENABLE"} [] OTHER -> {}
<1>1. off \in SUBSET Bits("PHY_1000T_CTRL") /\ on \in SUBSET Bits("PHY_1000T_CTRL")
  BY BitNames
<1>2. c.ms_type # "default" /\ g = Goal("PHY_1000T_CTRL", "MS_ENABLE", c.ms_type # "auto") =>
         g.reg = "PHY_1000T_CTRL" /\ (IF g.to = 1 THEN g.bit \in on ELSE g.bit \in off \ on)
  BY Kinds DEF Goal
<1>3. MasterSlave(c) = Edit("PHY_1000T_CTRL", off, on)
  BY Kinds DEF MasterSlave
<1>4. "PHY_1000T_CTRL" \in Registers \ {"KMRN_DIAG"}
  BY RegisterNames
<1> HIDE DEF off, on
<1> QED
  BY <1>1, <1>2, <1>3, <1>4, ChangeRow

\* Rows that move no bits but those of some registers.
RowsOn(a, g, regs) == {q \in Rows(a, g) : g.reg \notin regs => q \in KeepRows(a, g)}

LEMMA OnCat ==
    ASSUME NEW a, NEW g, NEW R
    PROVE  /\ <<>> \in RowsOn(a, g, R)
           /\ \A p, q \in RowsOn(a, g, R) : p \o q \in RowsOn(a, g, R)
           /\ \A b \in BOOLEAN : \A q : (b => q \in RowsOn(a, g, R)) => When(b, q) \in RowsOn(a, g, R)
<1>1. <<>> \in RowsOn(a, g, R) /\ \A p, q \in RowsOn(a, g, R) : p \o q \in RowsOn(a, g, R)
  BY RowsCat DEF RowsOn
<1>2. ASSUME NEW b \in BOOLEAN, NEW q, b => q \in RowsOn(a, g, R)
      PROVE  When(b, q) \in RowsOn(a, g, R)
  BY <1>1, <1>2 DEF When
<1> QED
  BY <1>1, <1>2

LEMMA SetupIgpRow ==
    ASSUME TypeOK, NEW c \in Configs[adapter], NEW g \in GoalType
    PROVE  /\ SetupIgp(c) \in RowsOn(adapter, g, DOMAIN PhyBits \cup {"PHY_CTRL"})
           /\ ~c.reset_disable /\ g \in ModeGoals("PORT_CTRL", "AUTO_MDIX", "FORCE_MDI_MDIX", c.mdix)
                 => SetupIgp(c) \in SetRows(adapter, g)
           /\ (/\ ~c.reset_disable /\ c.autoneg /\ c.ms_type # "default"
               /\ g = Goal("PHY_1000T_CTRL", "MS_ENABLE", c.ms_type # "auto"))
                 => SetupIgp(c) \in SetRows(adapter, g)
<1> DEFINE R == DOMAIN PhyBits \cup {"PHY_CTRL"}
           T == {"PORT_CONFIG", "PHY_1000T_CTRL"}
           first == HwReset \o D0LpluOff(c)
           mode == <<Crossover("PORT_CTRL", "AUTO_MDIX", "FORCE_MDI_MDIX", c.mdix)>>
           s == SmartSpeedOff
           e == Edit("PHY_1000T_CTRL", {"MS_ENABLE"}, {})
           gigabit == When(c.advertised = "1000", <<s, e>>)
           ms == <<MasterSlave(c)>>
           last == When(c.autoneg, gigabit \o ms)
<1>1. HwReset \in RowsOn(adapter, g, R) /\ D0LpluOff(c) \in RowsOn(adapter, g, R)
  BY HwResetRow, D0LpluOffRow, RegisterNames DEF RowsOn
<1>2. first \in RowsOn(adapter, g, R)
  BY <1>1, OnCat
<1>3. /\ mode \in RowsOn(adapter, g, R)
      /\ g \in ModeGoals("PORT_CTRL", "AUTO_MDIX", "FORCE_MDI_MDIX", c.mdix) => mode \in SetRows(adapter, g)
  <2>1. /\ mode \in Rows(adapter, g)
        /\ g.reg # "PORT_CTRL" => mode \in KeepRows(adapter, g)
        /\ g \in ModeGoals("PORT_CTRL", "AUTO_MDIX", "FORCE_MDI_MDIX", c.mdix) => mode \in SetRows(adapter, g)
    BY Kinds, RegisterNames, BitNames, CrossoverRow
  <2> QED
    BY <2>1, RegisterNames DEF RowsOn
<1>4. <<s>> \in RowsOn(adapter, g, T) /\ <<e>> \in RowsOn(adapter, g, T)
  BY RegisterNames, BitNames, ChangeRow DEF RowsOn, SmartSpeedOff
<1>5. /\ ms \in RowsOn(adapter, g, T)
      /\ c.ms_type # "default" /\ g = Goal("PHY_1000T_CTRL", "MS_ENABLE", c.ms_type # "auto")
            => ms \in SetRows(adapter, g)
  BY MasterSlaveRow DEF RowsOn
<1>6. c.autoneg \in BOOLEAN /\ c.reset_disable \in BOOLEAN
  BY Kinds
<1>7. SetupIgp(c) = When(~c.reset_disable, first \o mode \o last)
  BY DEF SetupIgp
<1>8. gigabit \in RowsOn(adapter, g, T)
  <2>1. <<s, e>> = <<s>> \o <<e>>
    BY Tuples
  <2> HIDE DEF s, e, T
  <2>2. <<s, e>> \in RowsOn(adapter, g, T)
    BY <1>4, <2>1, OnCat
  <2> QED
    BY <2>2, OnCat
<1>9. last \in RowsOn(adapter, g, T) /\ (c.autoneg /\ ms \in SetRows(adapter, g) => last \in SetRows(adapter, g))
  <2> HIDE DEF gigabit, ms, T
  <2>1. gigabit \o ms \in RowsOn(adapter, g, T)
    BY <1>5, <1>8, OnCat
  <2>2. ms \in SetRows(adapter, g) => gigabit \o ms \in SetRows(adapter, g)
    BY <1>5, <1>8, RowsCat DEF RowsOn
  <2> QED
    BY <1>6, <2>1, <2>2, OnCat DEF When
<1>10. last \in RowsOn(adapter, g, R)
  <2> HIDE DEF last
  <2> QED
    BY <1>9, RegisterNames DEF RowsOn
<1>11. g \in ModeGoals("PORT_CTRL", "AUTO_MDIX", "FORCE_MDI_MDIX", c.mdix) => g.reg \notin T
  BY DEF ModeGoals, Goal, If
<1>12. first \o mode \o last \in RowsOn(adapter, g, R)
  <2> HIDE DEF first, mode, last, R
  <2>1. first \o mode \in RowsOn(adapter, g, R)
    BY <1>2, <1>3, OnCat
  <2> QED
    BY <1>10, <2>1, OnCat
<1>13. /\ mode \in SetRows(adapter, g) /\ g.reg \notin T => first \o mode \o last \in SetRows(adapter, g)
       /\ last \in SetRows(adapter, g) => first \o mode \o last \in SetRows(adapter, g)
  <2> HIDE DEF first, mode, last, T
  <2>1. first \o mode \in Rows(adapter, g) /\ (mode \in SetRows(adapter, g) => first \o mode \in SetRows(adapter, g))
    BY <1>2, <1>3, RowsCat DEF RowsOn
  <2>2. last \in Rows(adapter, g) /\ (g.reg \notin T => last \in KeepRows(adapter, g))
    BY <1>9 DEF RowsOn
  <2> QED
    BY <2>1, <2>2, RowsCat
<1> HIDE DEF first, mode, last, ms, R, T
<1>14. SetupIgp(c) \in RowsOn(adapter, g, R)
  BY <1>6, <1>7, <1>12, OnCat DEF When
<1>15. ~c.reset_disable => SetupIgp(c) = first \o mode \o last
  BY <1>6, <1>7 DEF When
<1> QED
  BY <1>3, <1>5, <1>9, <1>11, <1>13, <1>14, <1>15 DEF R

\* Accesses that what is read may skip.
LEMMA PerhapsOn ==
    ASSUME NEW a, NEW g \in GoalType, NEW R, NEW s, NEW t, <<s>> \in RowsOn(a, g, R), <<t>> \in RowsOn(a, g, R)
    PROVE  <<Perhaps(1), s>> \in RowsOn(a, g, R) /\ <<Perhaps(2), s, t>> \in RowsOn(a, g, R)
<1>1. ASSUME NEW q \in RowsOn(a, g, R) PROVE <<Perhaps(Len(q))>> \o q \in RowsOn(a, g, R)
  <2>1. Len(q) \in Nat /\ q \in Seq(Steps(a)) /\ Passes(a, q, g)
    BY DEF RowsOn, Rows
  <2>2. <<Perhaps(Len(q))>> \in Seq(Steps(a)) /\ Passes(a, <<Perhaps(Len(q))>> \o q, g)
    BY <2>1, AccessIs, PerhapsRow
  <2>3. <<Perhaps(Len(q))>> \o q \in Rows(a, g)
    BY <2>1, <2>2, ConcatProperties DEF Rows
  <2> QED
    BY <2>3, PerhapsKeeps DEF RowsOn
<1>2. <<s, t>> \in RowsOn(a, g, R)
  <2>1. <<s, t>> = <<s>> \o <<t>>
    BY Tuples
  <2> QED
    BY <2>1, OnCat
<1>3. Len(<<s>>) = 1 /\ Len(<<s, t>>) = 2
  OBVIOUS
<1>4. <<Perhaps(1), s>> = <<Perhaps(1)>> \o <<s>>
  BY Tuples
<1>5. <<Perhaps(2), s, t>> = <<Perhaps(2)>> \o <<s, t>>
  <2> DEFINE p == Perhaps(2)
  <2> HIDE DEF p
  <2>1. <<p, s, t>> = <<p>> \o <<s, t>>
    OBVIOUS
  <2> QED
    BY <2>1 DEF p
<1> QED
  BY <1>1, <1>2, <1>3, <1>4, <1>5

\* The crossover mode of those with a control register of their own.
LEMMA SpecCtrlRow ==
    ASSUME TypeOK, NEW c \in Configs[adapter], NEW g \in GoalType, NEW on \in {{}, {"CRS_ON_TX"}}
    PROVE  /\ <<SpecCtrl(c, on)>> \in RowsOn(adapter, g, {"SPEC_CTRL"})
           /\ g \in XModeGoals(adapter, c.mdix) => <<SpecCtrl(c, on)>> \in SetRows(adapter, g)
<1> DEFINE off == {"X_MODE_0", "X_MODE_1", "POLARITY_REVERSAL"}
           bits == on \cup XMode(c.mdix) \cup Polarity(c)
<1>1. off \in SUBSET Bits("SPEC_CTRL") /\ bits \in SUBSET Bits("SPEC_CTRL")
  BY BitNames DEF XMode, Polarity
<1>2. c.mdix \in 0 .. 3
  BY Kinds
<1>3. g \in XModeGoals(adapter, c.mdix) =>
         g.reg = "SPEC_CTRL" /\ (IF g.to = 1 THEN g.bit \in bits ELSE g.bit \in off \ bits)
  <2>1. ("X_MODE_0" \in bits <=> c.mdix \in {0, 2} \/ (c.mdix = 3 /\ adapter.phy = "gg82563"))
        /\ ("X_MODE_1" \in bits <=> c.mdix \in {0, 3})
    BY <1>2 DEF XMode, Polarity
  <2> HIDE DEF bits
  <2> QED
    BY <2>1 DEF XModeGoals, Goal
<1>4. "SPEC_CTRL" \in Registers \ {"KMRN_DIAG"} /\ SpecCtrl(c, on) = Edit("SPEC_CTRL", off, bits)
  BY RegisterNames DEF SpecCtrl
<1> HIDE DEF off, bits
<1> QED
  BY <1>1, <1>3, <1>4, ChangeRow DEF RowsOn

LEMMA SetupM88Row ==
    ASSUME TypeOK, NEW c \in Configs[adapter], NEW g \in GoalType
    PROVE  /\ SetupM88(c) \in RowsOn(adapter, g, DOMAIN PhyBits)
           /\ ~c.reset_disable /\ g \in XModeGoals(adapter, c.mdix) => SetupM88(c) \in SetRows(adapter, g)
<1> DEFINE R == DOMAIN PhyBits
           T == {"EXT_CTRL", "PHY_CONTROL"}
           spec == <<SpecCtrl(c, {"CRS_ON_TX"})>>
           clk == When(adapter.phy = "m88", <<Edit("EXT_CTRL", {}, {"TX_CLK_25"})>>)
           bm == When(adapter.phy = "bm", <<Perhaps(2), Access, Access>>)
           reset == <<Commit({}, {})>>
           body == spec \o clk \o bm \o reset
<1>1. /\ spec \in Rows(adapter, g) /\ (g.reg \notin R => spec \in KeepRows(adapter, g))
      /\ g \in XModeGoals(adapter, c.mdix) => spec \in SetRows(adapter, g) /\ g.reg \notin T
  <2>1. g \in XModeGoals(adapter, c.mdix) => g.reg \notin T
    BY DEF XModeGoals, Goal
  <2> QED
    BY <2>1, SpecCtrlRow, RegisterNames DEF RowsOn
<1>2. clk \in RowsOn(adapter, g, T)
  <2>1. <<Edit("EXT_CTRL", {}, {"TX_CLK_25"})>> \in RowsOn(adapter, g, T)
    BY RegisterNames, BitNames, ChangeRow DEF RowsOn
  <2> QED
    BY <2>1, OnCat
<1>3. bm \in RowsOn(adapter, g, T)
  <2>1. <<Access>> \in RowsOn(adapter, g, T)
    BY AccessRows, RowsCat DEF RowsOn
  <2>2. <<Perhaps(2), Access, Access>> \in RowsOn(adapter, g, T)
    BY <2>1, PerhapsOn
  <2> QED
    BY <2>2, OnCat
<1>4. reset \in RowsOn(adapter, g, T)
  BY CommitRow DEF RowsOn
<1>5. SetupM88(c) = When(~c.reset_disable, body) /\ c.reset_disable \in BOOLEAN
  BY Kinds DEF SetupM88
<1> HIDE DEF spec, clk, bm, reset, T
<1>6. body \in Rows(adapter, g) /\ (g \in XModeGoals(adapter, c.mdix) => body \in SetRows(adapter, g))
  <2>1. clk \in Rows(adapter, g) /\ bm \in Rows(adapter, g) /\ reset \in Rows(adapter, g) /\ spec \in Rows(adapter, g)
    BY <1>1, <1>2, <1>3, <1>4 DEF RowsOn
  <2>2. spec \o clk \in Rows(adapter, g) /\ spec \o clk \o bm \in Rows(adapter, g)
    BY <2>1, RowsCat
  <2>3. g \in XModeGoals(adapter, c.mdix) =>
           clk \in KeepRows(adapter, g) /\ bm \in KeepRows(adapter, g) /\ reset \in KeepRows(adapter, g)
    BY <1>1, <1>2, <1>3, <1>4 DEF RowsOn
  <2> QED
    BY <1>1, <2>1, <2>2, <2>3, RowsCat
<1>7. g.reg \notin R => body \in KeepRows(adapter, g)
  <2> SUFFICES ASSUME g.reg \notin R PROVE body \in KeepRows(adapter, g)
    OBVIOUS
  <2>1. g.reg \notin T
    BY RegisterNames DEF T
  <2>2. /\ spec \in KeepRows(adapter, g) /\ clk \in KeepRows(adapter, g)
        /\ bm \in KeepRows(adapter, g) /\ reset \in KeepRows(adapter, g)
    BY <1>1, <1>2, <1>3, <1>4, <2>1 DEF RowsOn
  <2>3. spec \o clk \in KeepRows(adapter, g)
    BY <2>2, RowsCat
  <2>4. spec \o clk \o bm \in KeepRows(adapter, g)
    BY <2>2, <2>3, RowsCat
  <2> QED
    BY <2>2, <2>4, RowsCat
<1> HIDE DEF body
<1> QED
  BY <1>5, <1>6, <1>7, OnCat DEF When, RowsOn

LEMMA SetupGg82563Row ==
    ASSUME TypeOK, NEW c \in Configs[adapter], NEW g \in GoalType
    PROVE  /\ SetupGg82563(c) \in RowsOn(adapter, g, DOMAIN PhyBits)
           /\ ~c.reset_disable /\ g \in XModeGoals(adapter, c.mdix) => SetupGg82563(c) \in SetRows(adapter, g)
           /\ g = Goal("INBAND", "DIS_PADDING", TRUE) => SetupGg82563(c) \in SetRows(adapter, g)
<1> DEFINE T == {"EXT_CTRL", "PHY_CONTROL", "KMRN_MODE", "INBAND"}
           ext == Edit("EXT_CTRL", {}, {"CRS_ON_TX", "TX_CLK_25"})
           spec == SpecCtrl(c, {})
           reset == Commit({}, {})
           mode == Edit("KMRN_MODE", {"PASS_FALSE_CARRIER"}, {})
           pad == <<Edit("INBAND", {}, {"DIS_PADDING"})>>
           x == <<ext, spec, reset>>
           phy == When(~c.reset_disable, x)
           acc == <<Access, Access, Access>>
           iamt == <<Perhaps(2), Access, mode>>
           Asked == g \in XModeGoals(adapter, c.mdix)
<1>1. /\ <<ext>> \in RowsOn(adapter, g, T) /\ <<mode>> \in RowsOn(adapter, g, T) /\ pad \in RowsOn(adapter, g, T)
      /\ g = Goal("INBAND", "DIS_PADDING", TRUE) => pad \in SetRows(adapter, g)
  <2>1. g = Goal("INBAND", "DIS_PADDING", TRUE) => g.reg = "INBAND" /\ g.bit = "DIS_PADDING" /\ g.to = 1
    BY DEF Goal
  <2> QED
    BY <2>1, RegisterNames, BitNames, ChangeRow DEF RowsOn
<1>2. <<reset>> \in RowsOn(adapter, g, T)
  BY CommitRow DEF RowsOn
<1>3. /\ <<spec>> \in RowsOn(adapter, g, {"SPEC_CTRL"})
      /\ Asked => <<spec>> \in SetRows(adapter, g) /\ g.reg \notin T
  <2>1. Asked => g.reg \notin T
    BY DEF XModeGoals, Goal
  <2> QED
    BY <2>1, SpecCtrlRow
<1>4. acc \in RowsOn(adapter, g, T)
  BY AccessRows, RowsCat DEF RowsOn
<1>5. iamt \in RowsOn(adapter, g, T)
  <2>1. <<Access>> \in RowsOn(adapter, g, T)
    BY AccessRows, RowsCat DEF RowsOn
  <2> HIDE DEF mode, T
  <2> QED
    BY <1>1, <2>1, PerhapsOn
<1>6. /\ x \in Rows(adapter, g)
      /\ g.reg \notin DOMAIN PhyBits => x \in KeepRows(adapter, g)
      /\ Asked => x \in SetRows(adapter, g)
  <2>1. x = <<ext, spec>> \o <<reset>> /\ <<ext, spec>> = <<ext>> \o <<spec>>
    <3> HIDE DEF ext, spec, reset
    <3>1. x = <<ext, spec>> \o <<reset>>
      BY Tuples
    <3>2. <<ext, spec>> = <<ext>> \o <<spec>>
      BY Tuples
    <3> QED
      BY <3>1, <3>2
  <2>2. g.reg \notin DOMAIN PhyBits => g.reg \notin T \cup {"SPEC_CTRL"}
    BY RegisterNames
  <2> HIDE DEF x, ext, spec, reset, T, Asked
  <2>3. /\ <<ext, spec>> \in Rows(adapter, g)
        /\ g.reg \notin DOMAIN PhyBits => <<ext, spec>> \in KeepRows(adapter, g)
        /\ Asked => <<ext, spec>> \in SetRows(adapter, g)
    <3>1. /\ <<ext>> \in Rows(adapter, g) /\ <<spec>> \in Rows(adapter, g)
          /\ g.reg \notin DOMAIN PhyBits => <<ext>> \in KeepRows(adapter, g) /\ <<spec>> \in KeepRows(adapter, g)
      BY <1>1, <1>3, <2>2 DEF RowsOn
    <3> QED
      BY <1>3, <2>1, <3>1, RowsCat
  <2>4. /\ <<reset>> \in Rows(adapter, g)
        /\ g.reg \notin DOMAIN PhyBits \/ Asked => <<reset>> \in KeepRows(adapter, g)
    BY <1>2, <1>3, <2>2 DEF RowsOn
  <2> QED
    BY <2>1, <2>3, <2>4, RowsCat
<1>7. /\ phy \in Rows(adapter, g)
      /\ g.reg \notin DOMAIN PhyBits => phy \in KeepRows(adapter, g)
      /\ ~c.reset_disable /\ Asked => phy \in SetRows(adapter, g)
  <2> HIDE DEF x, Asked
  <2> QED
    BY <1>6, RowsCat DEF When
<1>8. SetupGg82563(c) = phy \o acc \o iamt \o pad
  BY DEF SetupGg82563
<1>9. g.reg \notin DOMAIN PhyBits => g.reg \notin T
  BY RegisterNames
<1> HIDE DEF phy, acc, iamt, pad, T, Asked
<1>10. phy \o acc \o iamt \o pad \in RowsOn(adapter, g, DOMAIN PhyBits)
  <2>1. /\ acc \in RowsOn(adapter, g, DOMAIN PhyBits) /\ iamt \in RowsOn(adapter, g, DOMAIN PhyBits)
        /\ pad \in RowsOn(adapter, g, DOMAIN PhyBits) /\ phy \in RowsOn(adapter, g, DOMAIN PhyBits)
    BY <1>1, <1>4, <1>5, <1>7, <1>9 DEF RowsOn
  <2>2. phy \o acc \in RowsOn(adapter, g, DOMAIN PhyBits)
    BY <2>1, OnCat
  <2>3. phy \o acc \o iamt \in RowsOn(adapter, g, DOMAIN PhyBits)
    BY <2>1, <2>2, OnCat
  <2> QED
    BY <2>1, <2>3, OnCat
<1>11. ~c.reset_disable /\ Asked => phy \o acc \o iamt \o pad \in SetRows(adapter, g)
  <2> SUFFICES ASSUME ~c.reset_disable, Asked PROVE phy \o acc \o iamt \o pad \in SetRows(adapter, g)
    OBVIOUS
  <2>1. phy \in SetRows(adapter, g) /\ acc \in KeepRows(adapter, g) /\ iamt \in KeepRows(adapter, g) /\ pad \in KeepRows(adapter, g)
    BY <1>1, <1>3, <1>4, <1>5, <1>7 DEF RowsOn
  <2>2. phy \o acc \in SetRows(adapter, g)
    BY <2>1, RowsCat
  <2>3. phy \o acc \o iamt \in SetRows(adapter, g)
    BY <2>1, <2>2, RowsCat
  <2> QED
    BY <2>1, <2>3, RowsCat
<1>12. pad \in SetRows(adapter, g) => phy \o acc \o iamt \o pad \in SetRows(adapter, g)
  <2>1. phy \o acc \in Rows(adapter, g)
    BY <1>4, <1>7, RowsCat DEF RowsOn
  <2>2. phy \o acc \o iamt \in Rows(adapter, g)
    BY <1>5, <2>1, RowsCat DEF RowsOn
  <2> QED
    BY <2>2, RowsCat
<1> QED
  BY <1>1, <1>8, <1>10, <1>11, <1>12 DEF Asked

LEMMA SetupPhyRow ==
    ASSUME TypeOK, NEW c \in Configs[adapter], NEW g \in GoalType
    PROVE  /\ SetupPhy(c) \in RowsOn(adapter, g, DOMAIN PhyBits \cup {"PHY_CTRL"})
           /\ c.autoneg /\ g \in CrossoverGoals(adapter, c) => SetupPhy(c) \in SetRows(adapter, g)
           /\ (/\ adapter.phy \in {"igp_2", "igp_3"} /\ ~c.reset_disable /\ c.autoneg /\ c.ms_type # "default"
               /\ g = Goal("PHY_1000T_CTRL", "MS_ENABLE", c.ms_type # "auto"))
                 => SetupPhy(c) \in SetRows(adapter, g)
           /\ adapter.mac = "80003" /\ g = Goal("INBAND", "DIS_PADDING", TRUE) => SetupPhy(c) \in SetRows(adapter, g)
<1> DEFINE R == DOMAIN PhyBits \cup {"PHY_CTRL"}
           x == Crossover("MDIX_CONTROL", "AUTO_MDIX", "FORCE_MDIX", c.mdix)
<1>1. /\ c.autoneg \in BOOLEAN /\ c.reset_disable \in BOOLEAN /\ c.mdix \in 0 .. 3
      /\ adapter.phy \in {"igp_2", "igp_3", "ife", "gg82563", "m88", "bm"}
      /\ adapter.mac = "80003" <=> adapter.phy = "gg82563"
  BY Kinds
<1>2. c.autoneg /\ g \in CrossoverGoals(adapter, c) =>
        /\ ~c.reset_disable
        /\ adapter.phy \in {"igp_2", "igp_3"} => g \in ModeGoals("PORT_CTRL", "AUTO_MDIX", "FORCE_MDI_MDIX", c.mdix)
        /\ adapter.phy = "ife" => g \in ModeGoals("MDIX_CONTROL", "AUTO_MDIX", "FORCE_MDIX", c.mdix)
        /\ adapter.phy \in {"m88", "bm", "gg82563"} => g \in XModeGoals(adapter, c.mdix)
  BY <1>1 DEF CrossoverGoals, If
<1>3. CASE adapter.phy \in {"igp_2", "igp_3"}
  <2>1. SetupPhy(c) = SetupIgp(c)
    BY <1>3 DEF SetupPhy
  <2>2. /\ SetupIgp(c) \in RowsOn(adapter, g, R)
        /\ ~c.reset_disable /\ g \in ModeGoals("PORT_CTRL", "AUTO_MDIX", "FORCE_MDI_MDIX", c.mdix)
                 => SetupIgp(c) \in SetRows(adapter, g)
        /\ (/\ ~c.reset_disable /\ c.autoneg /\ c.ms_type # "default"
            /\ g = Goal("PHY_1000T_CTRL", "MS_ENABLE", c.ms_type # "auto"))
                 => SetupIgp(c) \in SetRows(adapter, g)
    BY SetupIgpRow
  <2> QED
    BY <1>1, <1>2, <1>3, <2>1, <2>2
<1>4. CASE adapter.phy = "ife"
  <2>1. SetupPhy(c) = <<x>>
    BY <1>4 DEF SetupPhy
  <2>2. /\ <<x>> \in Rows(adapter, g)
        /\ g.reg # "MDIX_CONTROL" => <<x>> \in KeepRows(adapter, g)
        /\ g \in ModeGoals("MDIX_CONTROL", "AUTO_MDIX", "FORCE_MDIX", c.mdix) => <<x>> \in SetRows(adapter, g)
    BY <1>1, RegisterNames, BitNames, CrossoverRow
  <2>3. <<x>> \in RowsOn(adapter, g, R)
    <3> HIDE DEF x
    <3> QED
      BY <2>2, RegisterNames DEF RowsOn
  <2> HIDE DEF x
  <2> QED
    BY <1>1, <1>2, <1>4, <2>1, <2>2, <2>3
<1>5. CASE adapter.phy = "gg82563"
  <2>1. SetupPhy(c) = SetupGg82563(c)
    BY <1>5 DEF SetupPhy
  <2>2. SetupGg82563(c) \in RowsOn(adapter, g, R)
    BY SetupGg82563Row DEF RowsOn
  <2> QED
    BY <1>1, <1>2, <1>5, <2>1, <2>2, SetupGg82563Row
<1>6. CASE adapter.phy \in {"m88", "bm"}
  <2>1. SetupPhy(c) = SetupM88(c)
    BY <1>6 DEF SetupPhy
  <2>2. SetupM88(c) \in RowsOn(adapter, g, R)
    BY SetupM88Row DEF RowsOn
  <2> QED
    BY <1>1, <1>2, <1>6, <2>1, <2>2, SetupM88Row
<1> QED
  BY <1>1, <1>3, <1>4, <1>5, <1>6

LEMMA FourRows ==
    ASSUME NEW a, NEW g, NEW p \in Rows(a, g), NEW q \in Rows(a, g), NEW r \in Rows(a, g), NEW s \in Rows(a, g)
    PROVE  LET all == p \o q \o r \o s
               K == KeepRows(a, g)
               S == SetRows(a, g)
           IN  /\ all \in Rows(a, g)
               /\ p \in K /\ q \in K /\ r \in K /\ s \in K => all \in K
               /\ p \in S /\ q \in K /\ r \in K /\ s \in K => all \in S
               /\ q \in S /\ r \in K /\ s \in K => all \in S
               /\ r \in S /\ s \in K => all \in S
               /\ s \in S => all \in S
<1> DEFINE K == KeepRows(a, g)
           S == SetRows(a, g)
<1>1. /\ p \o q \in Rows(a, g)
      /\ p \in K /\ q \in K => p \o q \in K
      /\ (p \in S /\ q \in K) \/ q \in S => p \o q \in S
  BY RowsCat
<1>2. /\ p \o q \o r \in Rows(a, g)
      /\ p \o q \in K /\ r \in K => p \o q \o r \in K
      /\ (p \o q \in S /\ r \in K) \/ r \in S => p \o q \o r \in S
  BY <1>1, RowsCat
<1>3. /\ p \o q \o r \o s \in Rows(a, g)
      /\ p \o q \o r \in K /\ s \in K => p \o q \o r \o s \in K
      /\ (p \o q \o r \in S /\ s \in K) \/ s \in S => p \o q \o r \o s \in S
  BY <1>2, RowsCat
<1> HIDE DEF K, S
<1> QED
  BY <1>1, <1>2, <1>3 DEF K, S

LEMMA FourSteps == \A s, t, u, v : <<s, t, u, v>> = <<s>> \o <<t>> \o <<u>> \o <<v>>
<1> SUFFICES ASSUME NEW s, NEW t, NEW u, NEW v PROVE <<s, t, u, v>> = <<s>> \o <<t>> \o <<u>> \o <<v>>
  OBVIOUS
<1>1. <<s, t>> = <<s>> \o <<t>>
  BY Tuples
<1>2. <<s, t, u>> = <<s, t>> \o <<u>>
  BY Tuples
<1>3. <<s, t, u, v>> = <<s, t, u>> \o <<v>>
  BY Tuples
<1> QED
  BY <1>1, <1>2, <1>3

\* Negotiation: what is advertised, and that it is done.
LEMMA AutonegRow ==
    ASSUME TypeOK, NEW c \in Configs[adapter], NEW g \in GoalType
    PROVE  /\ Autoneg(c) \in RowsOn(adapter, g, {"PHY_AUTONEG_ADV", "PHY_1000T_CTRL", "PHY_CONTROL"})
           /\ g.reg = "PHY_1000T_CTRL" /\ g.bit = "MS_ENABLE" => Autoneg(c) \in KeepRows(adapter, g)
           /\ g = Goal("PHY_AUTONEG_ADV", "10/100", c.advertised # "1000") => Autoneg(c) \in SetRows(adapter, g)
           /\ adapter.phy # "ife" /\ g = Goal("PHY_1000T_CTRL", "FD_CAPS", c.advertised # "10/100")
                 => Autoneg(c) \in SetRows(adapter, g)
           /\ g = Goal("PHY_CONTROL", "AUTO_NEG_EN", TRUE) => Autoneg(c) \in SetRows(adapter, g)
<1> DEFINE adv == Edit("PHY_AUTONEG_ADV", {"10/100"}, IF c.advertised = "1000" THEN {} ELSE {"10/100"})
           caps == <<Edit("PHY_1000T_CTRL", {"FD_CAPS"}, IF c.advertised = "10/100" THEN {} ELSE {"FD_CAPS"})>>
           p == <<Access, adv>>
           q == When(adapter.phy # "ife", caps)
           r == <<Edit("PHY_CONTROL", {}, {"AUTO_NEG_EN"})>>
           s == When(c.wait, <<Access>>)
           Adv == g = Goal("PHY_AUTONEG_ADV", "10/100", c.advertised # "1000")
           Caps == g = Goal("PHY_1000T_CTRL", "FD_CAPS", c.advertised # "10/100")
           Ms == g.reg = "PHY_1000T_CTRL" /\ g.bit = "MS_ENABLE"
           En == g = Goal("PHY_CONTROL", "AUTO_NEG_EN", TRUE)
           K == KeepRows(adapter, g)
<1>1. /\ Adv => g.reg = "PHY_AUTONEG_ADV" /\ g.bit = "10/100" /\ (g.to = 1 <=> c.advertised # "1000")
      /\ Caps => g.reg = "PHY_1000T_CTRL" /\ g.bit = "FD_CAPS" /\ (g.to = 1 <=> c.advertised # "10/100")
      /\ En => g.reg = "PHY_CONTROL" /\ g.bit = "AUTO_NEG_EN" /\ g.to = 1
  BY DEF Goal
<1> HIDE DEF Adv, Caps, En
<1>2. /\ <<adv>> \in Rows(adapter, g) /\ (g.reg # "PHY_AUTONEG_ADV" => <<adv>> \in K)
      /\ Adv => <<adv>> \in SetRows(adapter, g)
  <2> DEFINE on == IF c.advertised = "1000" THEN {} ELSE {"10/100"}
  <2>1. on \in SUBSET Bits("PHY_AUTONEG_ADV") /\ {"10/100"} \in SUBSET Bits("PHY_AUTONEG_ADV")
    BY BitNames
  <2>2. Adv => IF g.to = 1 THEN g.bit \in on ELSE g.bit \in {"10/100"} \ on
    BY <1>1
  <2> HIDE DEF on
  <2> QED
    BY <1>1, <2>1, <2>2, RegisterNames, ChangeRow DEF on
<1>3. /\ caps \in Rows(adapter, g) /\ (g.reg # "PHY_1000T_CTRL" \/ Ms => caps \in K)
      /\ Caps => caps \in SetRows(adapter, g)
  <2> DEFINE on == IF c.advertised = "10/100" THEN {} ELSE {"FD_CAPS"}
  <2>1. on \in SUBSET Bits("PHY_1000T_CTRL") /\ {"FD_CAPS"} \in SUBSET Bits("PHY_1000T_CTRL")
    BY BitNames
  <2>2. /\ Caps => IF g.to = 1 THEN g.bit \in on ELSE g.bit \in {"FD_CAPS"} \ on
        /\ Ms => IF g.to = 1 THEN g.bit \in on \/ g.bit \notin {"FD_CAPS"} ELSE g.bit \notin on
    BY <1>1
  <2> HIDE DEF on
  <2> QED
    BY <1>1, <2>1, <2>2, RegisterNames, ChangeRow DEF on
<1>4. /\ r \in Rows(adapter, g) /\ (g.reg # "PHY_CONTROL" => r \in K)
      /\ En => r \in SetRows(adapter, g)
  BY <1>1, RegisterNames, BitNames, ChangeRow
<1>5. c.wait \in BOOLEAN /\ <<Access>> \in K /\ s \in K
  BY Kinds, AccessRows, RowsCat DEF When
<1> HIDE DEF caps, adv, r, s
<1>6. p \in Rows(adapter, g) /\ (g.reg # "PHY_AUTONEG_ADV" => p \in K) /\ (Adv => p \in SetRows(adapter, g))
  <2>1. p = <<Access>> \o <<adv>>
    BY Tuples
  <2> HIDE DEF p
  <2> QED
    BY <1>2, <1>5, <2>1, RowsCat
<1>7. /\ q \in Rows(adapter, g) /\ (g.reg # "PHY_1000T_CTRL" \/ Ms => q \in K)
      /\ adapter.phy # "ife" /\ Caps => q \in SetRows(adapter, g)
  BY <1>3, RowsCat DEF When
<1>8. Autoneg(c) = p \o q \o r \o s
  BY DEF Autoneg, adv, caps, r, s
<1>9. s \in Rows(adapter, g)
  BY <1>5, RowsCat
<1> HIDE DEF p, q
<1>10. (g.reg \notin {"PHY_AUTONEG_ADV", "PHY_1000T_CTRL", "PHY_CONTROL"} \/ Ms) => p \in K /\ q \in K /\ r \in K
  BY <1>4, <1>6, <1>7
<1>11. Autoneg(c) \in Rows(adapter, g) /\ (p \in K /\ q \in K /\ r \in K => Autoneg(c) \in K)
  BY <1>4, <1>5, <1>6, <1>7, <1>8, <1>9, FourRows
<1>12. /\ Adv => Autoneg(c) \in SetRows(adapter, g)
       /\ adapter.phy # "ife" /\ Caps => Autoneg(c) \in SetRows(adapter, g)
       /\ En => Autoneg(c) \in SetRows(adapter, g)
  BY <1>1, <1>4, <1>5, <1>6, <1>7, <1>8, <1>9, FourRows
<1> QED
  BY <1>10, <1>11, <1>12 DEF RowsOn, Adv, Caps, En

\* What forced speed and duplex are to leave in CTRL and in PHY_CONTROL.
CtrlGoals(c) ==
    {Goal("CTRL", "FRCSPD", TRUE), Goal("CTRL", "FRCDPX", TRUE), Goal("CTRL", "FD", c.full),
     Goal("CTRL", "SPD_100", c.speed = 100), Goal("CTRL", "ASDE", FALSE), Goal("CTRL", "SPD_1000", FALSE)}
ControlGoals(c) ==
    {Goal("PHY_CONTROL", "AUTO_NEG_EN", FALSE), Goal("PHY_CONTROL", "FULL_DUPLEX", c.full),
     Goal("PHY_CONTROL", "SPEED_100", c.speed = 100), Goal("PHY_CONTROL", "SPEED_1000", FALSE)}

LEMMA ForcedCtrlRow ==
    ASSUME TypeOK, NEW c \in Configs[adapter], NEW g \in GoalType
    PROVE  LET q == <<ForcedCtrl(c)>>
           IN  /\ q \in RowsOn(adapter, g, {"CTRL"})
               /\ g = Goal("CTRL", "SLU", TRUE) => q \in KeepRows(adapter, g)
               /\ g \in CtrlGoals(c) => q \in SetRows(adapter, g)
<1> DEFINE off == {"ASDE", "FD", "SPD_100", "SPD_1000"}
           on == {"FRCSPD", "FRCDPX"} \cup ((IF c.full THEN {"FD"} ELSE {}) \cup (IF c.speed = 100 THEN {"SPD_100"} ELSE {}))
<1>1. off \in SUBSET Bits("CTRL") /\ on \in SUBSET Bits("CTRL")
  BY BitNames
<1>2. g \in CtrlGoals(c) => g.reg = "CTRL" /\ (IF g.to = 1 THEN g.bit \in on ELSE g.bit \in off \ on)
  <2>1. /\ "FRCSPD" \in on /\ "FRCDPX" \in on /\ "ASDE" \in off \ on /\ "SPD_1000" \in off \ on
        /\ IF c.full THEN "FD" \in on ELSE "FD" \in off \ on
        /\ IF c.speed = 100 THEN "SPD_100" \in on ELSE "SPD_100" \in off \ on
    OBVIOUS
  <2> HIDE DEF on, off
  <2> QED
    BY <2>1 DEF CtrlGoals, Goal
<1>3. g = Goal("CTRL", "SLU", TRUE) => IF g.to = 1 THEN g.bit \in on \/ g.bit \notin off ELSE g.bit \notin on
  BY DEF Goal
<1>4. "CTRL" \in Registers \ {"KMRN_DIAG"} /\ ForcedCtrl(c) = Mac("CTRL", off, on)
  BY RegisterNames DEF ForcedCtrl
<1> HIDE DEF off, on
<1> QED
  BY <1>1, <1>2, <1>3, <1>4, ChangeRow DEF RowsOn

LEMMA ForcedControl ==
    ASSUME TypeOK, NEW c \in Configs[adapter], NEW g \in GoalType
    PROVE  /\ ForcedOff \in SUBSET Bits("PHY_CONTROL") /\ ForcedOn(c) \in SUBSET Bits("PHY_CONTROL")
           /\ g \in ControlGoals(c) =>
                 g.reg = "PHY_CONTROL" /\ (IF g.to = 1 THEN g.bit \in ForcedOn(c) ELSE g.bit \in ForcedOff \ ForcedOn(c))
<1>1. ForcedOff \in SUBSET Bits("PHY_CONTROL") /\ ForcedOn(c) \in SUBSET Bits("PHY_CONTROL")
  BY BitNames DEF ForcedOff, ForcedOn
<1>2. /\ "AUTO_NEG_EN" \in ForcedOff \ ForcedOn(c) /\ "SPEED_1000" \in ForcedOff \ ForcedOn(c)
      /\ IF c.full THEN "FULL_DUPLEX" \in ForcedOn(c) ELSE "FULL_DUPLEX" \in ForcedOff \ ForcedOn(c)
      /\ IF c.speed = 100 THEN "SPEED_100" \in ForcedOn(c) ELSE "SPEED_100" \in ForcedOff \ ForcedOn(c)
  BY DEF ForcedOff, ForcedOn
<1> QED
  BY <1>1, <1>2 DEF ControlGoals, Goal

LEMMA WaitForcedRow ==
    ASSUME TypeOK, NEW c \in Configs[adapter], NEW g \in GoalType
    PROVE  WaitForced(c) \in KeepRows(adapter, g)
<1> DEFINE K == KeepRows(adapter, g)
           w == When(adapter.phy # "gg82563", <<Access>>)
           dsp == w \o <<Access, Access>>
<1>1. c.wait \in BOOLEAN /\ <<Access>> \in K /\ <<Access, Access>> \in K /\ K \subseteq Rows(adapter, g)
  BY Kinds, AccessRows, RowsCat
<1>2. w \in K
  BY <1>1, RowsCat DEF When
<1> HIDE DEF w, K
<1>3. dsp \in K
  BY <1>1, <1>2, RowsCat DEF K
<1>4. WaitForced(c) = When(c.wait, <<Perhaps(Len(dsp))>> \o dsp \o <<Access>>)
  BY DEF WaitForced, w
<1> HIDE DEF dsp
<1>5. <<Perhaps(Len(dsp))>> \o dsp \in K
  BY <1>3, PerhapsKeeps DEF K
<1>6. <<Perhaps(Len(dsp))>> \o dsp \o <<Access>> \in K
  BY <1>1, <1>5, RowsCat DEF K
<1> QED
  BY <1>1, <1>4, <1>6, RowsCat DEF When, K

\* Both forced, and MDI, by the register that chooses it.
LEMMA ForceIgpRow ==
    ASSUME TypeOK, NEW c \in Configs[adapter], NEW g \in GoalType,
           NEW r \in {"PORT_CTRL", "MDIX_CONTROL"}, NEW bits, bits = Bits(r)
    PROVE  LET q == ForceIgp(c, r, bits)
           IN  /\ q \in RowsOn(adapter, g, {"CTRL", "PHY_CONTROL", r})
               /\ g = Goal("CTRL", "SLU", TRUE) => q \in KeepRows(adapter, g)
               /\ g \in CtrlGoals(c) \cup ControlGoals(c) => q \in SetRows(adapter, g)
               /\ g.reg = r /\ g.bit \in bits /\ g.to = 0 => q \in SetRows(adapter, g)
<1> DEFINE K == KeepRows(adapter, g)
           f == ForcedCtrl(c)
           e == Edit("PHY_CONTROL", ForcedOff, ForcedOn(c))
           m == Edit(r, bits, {})
           w == When(c.wait, <<Access, Access>>)
           x == <<Access, f, e, m>>
           Slu == g = Goal("CTRL", "SLU", TRUE)
<1>1. /\ <<f>> \in Rows(adapter, g) /\ (g.reg # "CTRL" => <<f>> \in K) /\ (Slu => <<f>> \in K)
      /\ g \in CtrlGoals(c) => <<f>> \in SetRows(adapter, g)
  BY ForcedCtrlRow DEF RowsOn
<1>2. /\ <<e>> \in Rows(adapter, g) /\ (g.reg # "PHY_CONTROL" => <<e>> \in K)
      /\ g \in ControlGoals(c) => <<e>> \in SetRows(adapter, g)
  BY ForcedControl, RegisterNames, ChangeRow
<1>3. /\ <<m>> \in Rows(adapter, g) /\ (g.reg # r => <<m>> \in K)
      /\ g.reg = r /\ g.bit \in bits /\ g.to = 0 => <<m>> \in SetRows(adapter, g)
  <2> DEFINE on == {}
  <2>1. r \in Registers \ {"KMRN_DIAG"} /\ bits \in SUBSET Bits(r) /\ on \in SUBSET Bits(r)
    BY RegisterNames
  <2>2. g.bit \in bits /\ g.to = 0 => IF g.to = 1 THEN g.bit \in on ELSE g.bit \in bits \ on
    OBVIOUS
  <2>3. m = Edit(r, bits, on)
    OBVIOUS
  <2> HIDE DEF on, m
  <2> QED
    BY <2>1, <2>2, <2>3, ChangeRow
<1>4. c.wait \in BOOLEAN /\ <<Access>> \in K /\ <<Access, Access>> \in K /\ K \subseteq Rows(adapter, g)
  BY Kinds, AccessRows, RowsCat
<1>5. w \in K
  BY <1>4, RowsCat DEF When
<1>6. /\ g \in CtrlGoals(c) \/ Slu => g.reg = "CTRL"
      /\ g \in ControlGoals(c) => g.reg = "PHY_CONTROL"
  BY DEF CtrlGoals, ControlGoals, Goal
<1>7. ForceIgp(c, r, bits) = x \o w
  BY DEF ForceIgp
<1> HIDE DEF f, e, m, w, Slu, K
<1>8. x = <<Access>> \o <<f>> \o <<e>> \o <<m>>
  BY FourSteps
<1> HIDE DEF x
<1>9. /\ x \in Rows(adapter, g)
      /\ <<f>> \in K /\ <<e>> \in K /\ <<m>> \in K => x \in K
      /\ <<f>> \in SetRows(adapter, g) /\ <<e>> \in K /\ <<m>> \in K => x \in SetRows(adapter, g)
      /\ <<e>> \in SetRows(adapter, g) /\ <<m>> \in K => x \in SetRows(adapter, g)
      /\ <<m>> \in SetRows(adapter, g) => x \in SetRows(adapter, g)
  BY <1>1, <1>2, <1>3, <1>4, <1>8, FourRows DEF K
<1>10. /\ x \o w \in Rows(adapter, g)
       /\ x \in K => x \o w \in K
       /\ x \in SetRows(adapter, g) => x \o w \in SetRows(adapter, g)
  BY <1>4, <1>5, <1>9, RowsCat DEF K
<1> QED
  BY <1>1, <1>2, <1>3, <1>6, <1>7, <1>9, <1>10 DEF RowsOn, Slu, K

\* The first steps of forcing an M88 or a GG82563, up to the reset of the PHY.
LEMMA ForceCommitRow ==
    ASSUME TypeOK, NEW c \in Configs[adapter], NEW g \in GoalType
    PROVE  LET q == <<Edit("SPEC_CTRL", {"X_MODE_0", "X_MODE_1"}, {}), Access, ForcedCtrl(c), Commit(ForcedOff, ForcedOn(c))>>
           IN  /\ q \in RowsOn(adapter, g, {"CTRL", "PHY_CONTROL", "EXT_CTRL", "SPEC_CTRL"})
               /\ g = Goal("CTRL", "SLU", TRUE) => q \in KeepRows(adapter, g)
               /\ g \in CtrlGoals(c) \cup ControlGoals(c) \cup XModeGoals(adapter, 1) => q \in SetRows(adapter, g)
<1> DEFINE K == KeepRows(adapter, g)
           e == Edit("SPEC_CTRL", {"X_MODE_0", "X_MODE_1"}, {})
           f == ForcedCtrl(c)
           s == Commit(ForcedOff, ForcedOn(c))
           x == <<e, Access, f, s>>
           Slu == g = Goal("CTRL", "SLU", TRUE)
<1>1. /\ <<f>> \in Rows(adapter, g) /\ (g.reg # "CTRL" => <<f>> \in K) /\ (Slu => <<f>> \in K)
      /\ g \in CtrlGoals(c) => <<f>> \in SetRows(adapter, g)
  BY ForcedCtrlRow DEF RowsOn
<1>2. /\ <<s>> \in Rows(adapter, g) /\ (g.reg \notin {"PHY_CONTROL", "EXT_CTRL"} => <<s>> \in K)
      /\ g \in ControlGoals(c) => <<s>> \in SetRows(adapter, g)
  BY ForcedControl, CommitRow
<1>3. /\ <<e>> \in Rows(adapter, g) /\ (g.reg # "SPEC_CTRL" => <<e>> \in K)
      /\ g \in XModeGoals(adapter, 1) => <<e>> \in SetRows(adapter, g) /\ g.reg = "SPEC_CTRL"
  <2> DEFINE off == {"X_MODE_0", "X_MODE_1"}
             on == {}
  <2>1. g \in XModeGoals(adapter, 1) =>
           g.reg = "SPEC_CTRL" /\ IF g.to = 1 THEN g.bit \in on ELSE g.bit \in off \ on
    BY DEF XModeGoals, Goal
  <2>2. /\ off \in SUBSET Bits("SPEC_CTRL") /\ on \in SUBSET Bits("SPEC_CTRL")
        /\ "SPEC_CTRL" \in Registers \ {"KMRN_DIAG"} /\ e = Edit("SPEC_CTRL", off, on)
    BY BitNames, RegisterNames
  <2> HIDE DEF off, on, e
  <2> QED
    BY <2>1, <2>2, ChangeRow
<1>4. <<Access>> \in K /\ K \subseteq Rows(adapter, g)
  BY AccessRows, RowsCat
<1>5. /\ g \in CtrlGoals(c) \/ Slu => g.reg = "CTRL"
      /\ g \in ControlGoals(c) => g.reg = "PHY_CONTROL"
  BY DEF CtrlGoals, ControlGoals, Goal
<1> HIDE DEF f, e, s, Slu, K
<1>6. x = <<e>> \o <<Access>> \o <<f>> \o <<s>>
  BY FourSteps
<1> HIDE DEF x
<1>7. /\ x \in Rows(adapter, g)
      /\ <<e>> \in K /\ <<f>> \in K /\ <<s>> \in K => x \in K
      /\ <<e>> \in SetRows(adapter, g) /\ <<f>> \in K /\ <<s>> \in K => x \in SetRows(adapter, g)
      /\ <<f>> \in SetRows(adapter, g) /\ <<s>> \in K => x \in SetRows(adapter, g)
      /\ <<s>> \in SetRows(adapter, g) => x \in SetRows(adapter, g)
  BY <1>1, <1>2, <1>3, <1>4, <1>6, FourRows DEF K
<1>8. /\ x \in RowsOn(adapter, g, {"CTRL", "PHY_CONTROL", "EXT_CTRL", "SPEC_CTRL"})
      /\ Slu => x \in K
      /\ g \in CtrlGoals(c) \cup ControlGoals(c) \cup XModeGoals(adapter, 1) => x \in SetRows(adapter, g)
  BY <1>1, <1>2, <1>3, <1>5, <1>7 DEF RowsOn, K
<1> QED
  BY <1>8 DEF x, e, f, s, Slu, K

LEMMA ForceM88Row ==
    ASSUME TypeOK, NEW c \in Configs[adapter], NEW g \in GoalType
    PROVE  LET q == ForceM88(c)
           IN  /\ q \in RowsOn(adapter, g, {"CTRL", "PHY_CONTROL", "EXT_CTRL", "SPEC_CTRL"})
               /\ g = Goal("CTRL", "SLU", TRUE) => q \in KeepRows(adapter, g)
               /\ (\/ g \in CtrlGoals(c) \cup ControlGoals(c) \cup XModeGoals(adapter, 1)
                   \/ g = Goal("EXT_CTRL", "TX_CLK_25", TRUE) \/ g = Goal("SPEC_CTRL", "CRS_ON_TX", TRUE))
                     => q \in SetRows(adapter, g)
<1> DEFINE K == KeepRows(adapter, g)
           x == <<Edit("SPEC_CTRL", {"X_MODE_0", "X_MODE_1"}, {}), Access, ForcedCtrl(c), Commit(ForcedOff, ForcedOn(c))>>
           w == WaitForced(c)
           e == Edit("EXT_CTRL", {}, {"TX_CLK_25"})
           s == Edit("SPEC_CTRL", {}, {"CRS_ON_TX"})
           y == <<e, s>>
           Slu == g = Goal("CTRL", "SLU", TRUE)
           Early == g \in CtrlGoals(c) \cup ControlGoals(c) \cup XModeGoals(adapter, 1)
           Clk == g = Goal("EXT_CTRL", "TX_CLK_25", TRUE)
           Crs == g = Goal("SPEC_CTRL", "CRS_ON_TX", TRUE)
           R == {"CTRL", "PHY_CONTROL", "EXT_CTRL", "SPEC_CTRL"}
<1>1. x \in RowsOn(adapter, g, R) /\ (Slu => x \in K) /\ (Early => x \in SetRows(adapter, g))
  BY ForceCommitRow
<1>2. w \in K
  BY WaitForcedRow
<1>3. /\ <<e>> \in Rows(adapter, g) /\ (g.reg # "EXT_CTRL" => <<e>> \in K)
      /\ Clk => <<e>> \in SetRows(adapter, g) /\ g.reg = "EXT_CTRL"
  <2>1. Clk => g.reg = "EXT_CTRL" /\ g.bit = "TX_CLK_25" /\ g.to = 1
    BY DEF Goal
  <2> QED
    BY <2>1, RegisterNames, BitNames, ChangeRow
<1>4. /\ <<s>> \in Rows(adapter, g) /\ (g.reg # "SPEC_CTRL" \/ g \in XModeGoals(adapter, 1) => <<s>> \in K)
      /\ Crs => <<s>> \in SetRows(adapter, g)
  <2>1. g \in XModeGoals(adapter, 1) => g.bit # "CRS_ON_TX"
    BY DEF XModeGoals, Goal
  <2>2. Crs => g.reg = "SPEC_CTRL" /\ g.bit = "CRS_ON_TX" /\ g.to = 1
    BY DEF Goal
  <2> QED
    BY <2>1, <2>2, RegisterNames, BitNames, ChangeRow
<1>5. Early \/ Slu => g.reg \in {"CTRL", "PHY_CONTROL"} \/ (g \in XModeGoals(adapter, 1) /\ g.reg = "SPEC_CTRL")
  BY DEF CtrlGoals, ControlGoals, XModeGoals, Goal
<1>6. ForceM88(c) = x \o w \o y
  BY DEF ForceM88
<1> HIDE DEF x, w, e, s, Slu, Early, Clk, Crs, K
<1>7. y = <<e>> \o <<s>>
  BY Tuples
<1> HIDE DEF y
<1>8. /\ y \in Rows(adapter, g)
      /\ <<e>> \in K /\ <<s>> \in K => y \in K
      /\ <<e>> \in SetRows(adapter, g) /\ <<s>> \in K => y \in SetRows(adapter, g)
      /\ <<s>> \in SetRows(adapter, g) => y \in SetRows(adapter, g)
  BY <1>3, <1>4, <1>7, RowsCat DEF K
<1>9. /\ x \o w \in Rows(adapter, g) /\ (x \in K => x \o w \in K)
      /\ x \in SetRows(adapter, g) => x \o w \in SetRows(adapter, g)
  BY <1>1, <1>2, RowsCat DEF K, RowsOn
<1>10. /\ x \o w \o y \in Rows(adapter, g)
       /\ x \in K /\ y \in K => x \o w \o y \in K
       /\ x \in SetRows(adapter, g) /\ y \in K => x \o w \o y \in SetRows(adapter, g)
       /\ y \in SetRows(adapter, g) => x \o w \o y \in SetRows(adapter, g)
  BY <1>8, <1>9, RowsCat DEF K
<1>11. /\ g.reg \notin R => x \in K /\ y \in K
       /\ Slu \/ Early => y \in K
       /\ Clk \/ Crs => y \in SetRows(adapter, g)
  BY <1>1, <1>3, <1>4, <1>5, <1>8 DEF RowsOn, K
<1> QED
  BY <1>1, <1>6, <1>10, <1>11 DEF RowsOn, K, Slu, Early, Clk, Crs

LEMMA ForceGg82563Row ==
    ASSUME TypeOK, NEW c \in Configs[adapter], NEW g \in GoalType
    PROVE  LET q == ForceGg82563(c)
           IN  /\ q \in RowsOn(adapter, g, {"CTRL", "PHY_CONTROL", "EXT_CTRL", "SPEC_CTRL"})
               /\ g = Goal("CTRL", "SLU", TRUE) => q \in KeepRows(adapter, g)
               /\ (\/ g \in CtrlGoals(c) \cup ControlGoals(c) \cup XModeGoals(adapter, 1)
                   \/ g = Goal("EXT_CTRL", "TX_CLK_25", c.speed = 100))
                     => q \in SetRows(adapter, g)
<1> DEFINE K == KeepRows(adapter, g)
           x == <<Edit("SPEC_CTRL", {"X_MODE_0", "X_MODE_1"}, {}), Access, ForcedCtrl(c), Commit(ForcedOff, ForcedOn(c))>>
           w == WaitForced(c)
           on == {"CRS_ON_TX"} \cup (IF c.speed = 100 THEN {"TX_CLK_25"} ELSE {})
           y == <<Edit("EXT_CTRL", {"TX_CLK_25"}, on)>>
           Slu == g = Goal("CTRL", "SLU", TRUE)
           Early == g \in CtrlGoals(c) \cup ControlGoals(c) \cup XModeGoals(adapter, 1)
           Clk == g = Goal("EXT_CTRL", "TX_CLK_25", c.speed = 100)
           R == {"CTRL", "PHY_CONTROL", "EXT_CTRL", "SPEC_CTRL"}
<1>1. x \in RowsOn(adapter, g, R) /\ (Slu => x \in K) /\ (Early => x \in SetRows(adapter, g))
  BY ForceCommitRow
<1>2. w \in K
  BY WaitForcedRow
<1>3. /\ y \in Rows(adapter, g) /\ (g.reg # "EXT_CTRL" => y \in K)
      /\ Clk => y \in SetRows(adapter, g)
  <2>1. Clk => g.reg = "EXT_CTRL" /\ g.bit = "TX_CLK_25" /\ (g.to = 1 <=> c.speed = 100)
    BY DEF Goal
  <2>2. Clk => IF g.to = 1 THEN g.bit \in on ELSE g.bit \in {"TX_CLK_25"} \ on
    BY <2>1
  <2>3. on \in SUBSET Bits("EXT_CTRL") /\ {"TX_CLK_25"} \in SUBSET Bits("EXT_CTRL") /\ "EXT_CTRL" \in Registers \ {"KMRN_DIAG"}
    BY BitNames, RegisterNames
  <2> HIDE DEF on, Clk
  <2> QED
    BY <2>1, <2>2, <2>3, ChangeRow
<1>4. Early \/ Slu => g.reg # "EXT_CTRL"
  BY DEF CtrlGoals, ControlGoals, XModeGoals, Goal
<1>5. ForceGg82563(c) = x \o w \o y
  BY DEF ForceGg82563
<1> HIDE DEF x, w, y, Slu, Early, Clk, K
<1>6. /\ x \o w \in Rows(adapter, g) /\ (x \in K => x \o w \in K)
      /\ x \in SetRows(adapter, g) => x \o w \in SetRows(adapter, g)
  BY <1>1, <1>2, RowsCat DEF K, RowsOn
<1>7. /\ x \o w \o y \in Rows(adapter, g)
      /\ x \in K /\ y \in K => x \o w \o y \in K
      /\ x \in SetRows(adapter, g) /\ y \in K => x \o w \o y \in SetRows(adapter, g)
      /\ y \in SetRows(adapter, g) => x \o w \o y \in SetRows(adapter, g)
  BY <1>3, <1>6, RowsCat DEF K
<1> QED
  BY <1>1, <1>3, <1>4, <1>5, <1>7 DEF RowsOn, K, Slu, Early, Clk

LEMMA ForceRow ==
    ASSUME TypeOK, NEW c \in Configs[adapter], NEW g \in GoalType
    PROVE  /\ ForceSpeedDuplex(c) \in RowsOn(adapter, g, {"CTRL", "PHY_CONTROL", "EXT_CTRL", "SPEC_CTRL", "PORT_CTRL", "MDIX_CONTROL"})
           /\ g = Goal("CTRL", "SLU", TRUE) => ForceSpeedDuplex(c) \in KeepRows(adapter, g)
           /\ g \in CtrlGoals(c) \cup ControlGoals(c) => ForceSpeedDuplex(c) \in SetRows(adapter, g)
           /\ ~c.autoneg /\ g \in CrossoverGoals(adapter, c) => ForceSpeedDuplex(c) \in SetRows(adapter, g)
           /\ (/\ adapter.phy = "m88"
               /\ g = Goal("EXT_CTRL", "TX_CLK_25", TRUE) \/ g = Goal("SPEC_CTRL", "CRS_ON_TX", TRUE))
                => ForceSpeedDuplex(c) \in SetRows(adapter, g)
           /\ adapter.phy = "gg82563" /\ g = Goal("EXT_CTRL", "TX_CLK_25", c.speed = 100)
                => ForceSpeedDuplex(c) \in SetRows(adapter, g)
<1> DEFINE R == {"CTRL", "PHY_CONTROL", "EXT_CTRL", "SPEC_CTRL", "PORT_CTRL", "MDIX_CONTROL"}
           Port == {"AUTO_MDIX", "FORCE_MDI_MDIX"}
           Mdi == {"AUTO_MDIX", "FORCE_MDIX"}
<1>1. /\ c.autoneg \in BOOLEAN
      /\ adapter.phy \in {"igp_2", "igp_3", "ife", "gg82563", "m88", "bm"}
      /\ adapter.phy = "igp_3" => IsIch
      /\ adapter.phy \in {"igp_2", "m88", "gg82563"} => ~IsIch
  BY Kinds DEF IsIch
<1>2. ~c.autoneg /\ g \in CrossoverGoals(adapter, c) =>
        /\ adapter.phy \in {"igp_2", "igp_3"} => g.reg = "PORT_CTRL" /\ g.bit \in Port /\ g.to = 0
        /\ adapter.phy = "ife" => g.reg = "MDIX_CONTROL" /\ g.bit \in Mdi /\ g.to = 0
        /\ adapter.phy \in {"m88", "bm", "gg82563"} => ~IsIch /\ g \in XModeGoals(adapter, 1)
  BY <1>1 DEF CrossoverGoals, ModeGoals, If, Goal, IsIch
<1>3. CASE adapter.phy = "ife"
  <2>1. ForceSpeedDuplex(c) = ForceIgp(c, "MDIX_CONTROL", Mdi) /\ Mdi = Bits("MDIX_CONTROL")
    BY <1>3, BitNames DEF ForceSpeedDuplex
  <2> HIDE DEF Mdi
  <2>2. /\ ForceSpeedDuplex(c) \in RowsOn(adapter, g, {"CTRL", "PHY_CONTROL", "MDIX_CONTROL"})
        /\ g = Goal("CTRL", "SLU", TRUE) => ForceSpeedDuplex(c) \in KeepRows(adapter, g)
        /\ g \in CtrlGoals(c) \cup ControlGoals(c) => ForceSpeedDuplex(c) \in SetRows(adapter, g)
        /\ g.reg = "MDIX_CONTROL" /\ g.bit \in Mdi /\ g.to = 0 => ForceSpeedDuplex(c) \in SetRows(adapter, g)
    BY <2>1, ForceIgpRow
  <2>3. ForceSpeedDuplex(c) \in RowsOn(adapter, g, R)
    BY <2>2 DEF RowsOn
  <2> QED
    BY <1>2, <1>3, <2>2, <2>3
<1>4. CASE adapter.phy # "ife" /\ (IsIch \/ adapter.phy = "igp_2")
  <2>1. ForceSpeedDuplex(c) = ForceIgp(c, "PORT_CTRL", Port) /\ Port = Bits("PORT_CTRL")
    BY <1>1, <1>4, BitNames DEF ForceSpeedDuplex
  <2> HIDE DEF Port
  <2>2. /\ ForceSpeedDuplex(c) \in RowsOn(adapter, g, {"CTRL", "PHY_CONTROL", "PORT_CTRL"})
        /\ g = Goal("CTRL", "SLU", TRUE) => ForceSpeedDuplex(c) \in KeepRows(adapter, g)
        /\ g \in CtrlGoals(c) \cup ControlGoals(c) => ForceSpeedDuplex(c) \in SetRows(adapter, g)
        /\ g.reg = "PORT_CTRL" /\ g.bit \in Port /\ g.to = 0 => ForceSpeedDuplex(c) \in SetRows(adapter, g)
    BY <2>1, ForceIgpRow
  <2>3. ForceSpeedDuplex(c) \in RowsOn(adapter, g, R)
    BY <2>2 DEF RowsOn
  <2> QED
    BY <1>1, <1>2, <1>4, <2>2, <2>3
<1>5. CASE adapter.phy = "gg82563"
  <2>1. ForceSpeedDuplex(c) = ForceGg82563(c)
    BY <1>1, <1>5 DEF ForceSpeedDuplex
  <2>2. ForceSpeedDuplex(c) \in RowsOn(adapter, g, R)
    BY <2>1, ForceGg82563Row DEF RowsOn
  <2> QED
    BY <1>2, <1>5, <2>1, <2>2, ForceGg82563Row
<1>6. CASE adapter.phy \in {"m88", "bm"} /\ ~IsIch
  <2>1. ForceSpeedDuplex(c) = ForceM88(c)
    BY <1>1, <1>6 DEF ForceSpeedDuplex
  <2>2. ForceSpeedDuplex(c) \in RowsOn(adapter, g, R)
    BY <2>1, ForceM88Row DEF RowsOn
  <2> QED
    BY <1>2, <1>6, <2>1, <2>2, ForceM88Row
<1> QED
  BY <1>1, <1>3, <1>4, <1>5, <1>6

LEMMA LinkUpRow ==
    ASSUME TypeOK, NEW c \in Configs[adapter], NEW g \in GoalType
    PROVE  LET row == IF c.autoneg THEN Autoneg(c) ELSE ForceSpeedDuplex(c)
           IN  /\ row \in KeepRows(adapter, g) => LinkUp(c) \in KeepRows(adapter, g)
               /\ row \in SetRows(adapter, g) => LinkUp(c) \in SetRows(adapter, g)
               /\ LinkUp(c) \in Rows(adapter, g)
<1> DEFINE row == IF c.autoneg THEN Autoneg(c) ELSE ForceSpeedDuplex(c)
           fc == <<Perhaps(1), Access>>
<1>1. row \in Rows(adapter, g)
  BY AutonegRow, ForceRow DEF RowsOn
<1>2. fc \in RowsOn(adapter, g, {})
  <2>1. <<Access>> \in RowsOn(adapter, g, {})
    BY AccessRows, RowsCat DEF RowsOn
  <2> QED
    BY <2>1, PerhapsOn
<1>3. LinkUp(c) = row \o fc
  BY DEF LinkUp
<1> HIDE DEF row, fc
<1>4. fc \in KeepRows(adapter, g)
  BY <1>2 DEF RowsOn
<1>5. /\ row \in KeepRows(adapter, g) => LinkUp(c) \in KeepRows(adapter, g)
      /\ row \in SetRows(adapter, g) => LinkUp(c) \in SetRows(adapter, g)
      /\ LinkUp(c) \in Rows(adapter, g)
  BY <1>1, <1>3, <1>4, RowsCat
<1> QED
  BY <1>5 DEF row

LEMMA SetLinkUpRow ==
    ASSUME TypeOK, NEW g \in GoalType
    PROVE  LET q == <<SetLinkUp>>
           IN  /\ q \in RowsOn(adapter, g, {"CTRL"})
               /\ g \in {Goal("CTRL", "SLU", TRUE), Goal("CTRL", "FRCSPD", FALSE), Goal("CTRL", "FRCDPX", FALSE)}
                     => q \in SetRows(adapter, g)
<1> DEFINE off == {"FRCSPD", "FRCDPX"}
           on == {"SLU"}
<1>1. /\ off \in SUBSET Bits("CTRL") /\ on \in SUBSET Bits("CTRL")
      /\ "CTRL" \in Registers \ {"KMRN_DIAG"} /\ SetLinkUp = Mac("CTRL", off, on)
  BY BitNames, RegisterNames DEF SetLinkUp
<1>2. g \in {Goal("CTRL", "SLU", TRUE), Goal("CTRL", "FRCSPD", FALSE), Goal("CTRL", "FRCDPX", FALSE)}
        => g.reg = "CTRL" /\ IF g.to = 1 THEN g.bit \in on ELSE g.bit \in off \ on
  BY DEF Goal
<1> HIDE DEF off, on
<1> QED
  BY <1>1, <1>2, ChangeRow DEF RowsOn

\* A setup reaches all that it is to leave.
LEMMA SetupRow ==
    ASSUME TypeOK, NEW c \in Configs[adapter], NEW g \in GoalType
    PROVE  /\ Setup(c) \in Rows(adapter, g)
           /\ g \in SetupGoals(adapter, c) => Setup(c) \in SetRows(adapter, g)
<1> DEFINE K == KeepRows(adapter, g)
           S == SetRows(adapter, g)
           up == <<SetLinkUp>>
           kt == KumeranTimeouts
           phy == SetupPhy(c)
           row == IF c.autoneg THEN Autoneg(c) ELSE ForceSpeedDuplex(c)
           link == LinkUp(c)
<1>1. /\ up \in Rows(adapter, g) /\ (g.reg # "CTRL" => up \in K)
      /\ kt \in Rows(adapter, g) /\ (g.reg # "KMRN_INB" => kt \in K)
      /\ phy \in Rows(adapter, g) /\ (g.reg \in {"CTRL", "KMRN_INB"} => phy \in K)
      /\ link \in Rows(adapter, g) /\ (row \in K => link \in K) /\ (row \in S => link \in S)
  BY SetLinkUpRow, KumeranTimeoutsRow, SetupPhyRow, LinkUpRow, RegisterNames DEF RowsOn
<1>2. /\ Setup(c) \in Rows(adapter, g)
      /\ up \in S /\ kt \in K /\ phy \in K /\ link \in K => Setup(c) \in S
      /\ kt \in S /\ phy \in K /\ link \in K => Setup(c) \in S
      /\ phy \in S /\ link \in K => Setup(c) \in S
      /\ link \in S => Setup(c) \in S
  <2>1. Setup(c) = up \o kt \o phy \o link
    BY DEF Setup
  <2> HIDE DEF up, kt, phy, link
  <2> QED
    BY <1>1, <2>1, FourRows
<1> SUFFICES ASSUME g \in SetupGoals(adapter, c) PROVE Setup(c) \in S
  BY <1>2
<1>3. c.autoneg \in BOOLEAN
  BY Kinds
<1>4. CASE g = Goal("CTRL", "SLU", TRUE)
  <2>1. g.reg = "CTRL"
    BY <1>4 DEF Goal
  <2>2. up \in S
    BY <1>4, SetLinkUpRow
  <2>3. row \in K
    BY <1>4, <2>1, AutonegRow, ForceRow DEF RowsOn
  <2> QED
    BY <1>1, <1>2, <2>1, <2>2, <2>3
<1>5. CASE g \in {Goal("CTRL", "FRCSPD", ~c.autoneg), Goal("CTRL", "FRCDPX", ~c.autoneg)}
  <2>1. g.reg = "CTRL"
    BY <1>5 DEF Goal
  <2>2. CASE c.autoneg
    <3>1. up \in S
      <4>1. g \in {Goal("CTRL", "FRCSPD", FALSE), Goal("CTRL", "FRCDPX", FALSE)}
        BY <1>5, <2>2 DEF Goal
      <4> QED
        BY <4>1, SetLinkUpRow
    <3>2. row \in K
      BY <2>1, <2>2, AutonegRow DEF RowsOn
    <3> QED
      BY <1>1, <1>2, <2>1, <3>1, <3>2
  <2>3. CASE ~c.autoneg
    <3>1. g \in CtrlGoals(c)
      BY <1>5, <2>3 DEF CtrlGoals, Goal
    <3>2. row \in S
      BY <2>3, <3>1, ForceRow
    <3> QED
      BY <1>1, <1>2, <3>2
  <2> QED
    BY <1>3, <2>2, <2>3
<1>6. CASE g = Goal("PHY_CONTROL", "AUTO_NEG_EN", c.autoneg)
  <2>1. CASE c.autoneg
    <3>1. g = Goal("PHY_CONTROL", "AUTO_NEG_EN", TRUE)
      BY <1>6, <2>1 DEF Goal
    <3>2. row \in S
      BY <2>1, <3>1, AutonegRow
    <3> QED
      BY <1>1, <1>2, <3>2
  <2>2. CASE ~c.autoneg
    <3>1. g \in ControlGoals(c)
      BY <1>6, <2>2 DEF ControlGoals, Goal
    <3>2. row \in S
      BY <2>2, <3>1, ForceRow
    <3> QED
      BY <1>1, <1>2, <3>2
  <2> QED
    BY <1>3, <2>1, <2>2
<1>7. CASE c.autoneg /\ g \in AutonegGoals(adapter, c)
  <2>1. \/ g = Goal("PHY_AUTONEG_ADV", "10/100", c.advertised # "1000")
        \/ adapter.phy # "ife" /\ g = Goal("PHY_1000T_CTRL", "FD_CAPS", c.advertised # "10/100")
        \/ /\ adapter.phy \in {"igp_2", "igp_3"} /\ ~c.reset_disable /\ c.ms_type # "default"
           /\ g = Goal("PHY_1000T_CTRL", "MS_ENABLE", c.ms_type # "auto")
    BY <1>7 DEF AutonegGoals, If
  <2>2. CASE \/ g = Goal("PHY_AUTONEG_ADV", "10/100", c.advertised # "1000")
             \/ adapter.phy # "ife" /\ g = Goal("PHY_1000T_CTRL", "FD_CAPS", c.advertised # "10/100")
    <3>1. row \in S
      BY <1>7, <2>2, AutonegRow
    <3> QED
      BY <1>1, <1>2, <3>1
  <2>3. CASE /\ adapter.phy \in {"igp_2", "igp_3"} /\ ~c.reset_disable /\ c.ms_type # "default"
             /\ g = Goal("PHY_1000T_CTRL", "MS_ENABLE", c.ms_type # "auto")
    <3>1. phy \in S
      BY <1>7, <2>3, SetupPhyRow
    <3>2. g.reg = "PHY_1000T_CTRL" /\ g.bit = "MS_ENABLE"
      BY <2>3 DEF Goal
    <3>3. row \in K
      BY <1>7, <3>2, AutonegRow
    <3> QED
      BY <1>1, <1>2, <3>1, <3>3
  <2> QED
    BY <2>1, <2>2, <2>3
<1>8. CASE ~c.autoneg /\ g \in ForcedGoals(adapter, c)
  <2>1. \/ g \in CtrlGoals(c) \cup ControlGoals(c)
        \/ /\ adapter.phy = "m88"
           /\ g = Goal("EXT_CTRL", "TX_CLK_25", TRUE) \/ g = Goal("SPEC_CTRL", "CRS_ON_TX", TRUE)
        \/ adapter.phy = "gg82563" /\ g = Goal("EXT_CTRL", "TX_CLK_25", c.speed = 100)
    BY <1>8 DEF ForcedGoals, CtrlGoals, ControlGoals, If
  <2>2. row \in S
    BY <1>8, <2>1, ForceRow
  <2> QED
    BY <1>1, <1>2, <2>2
<1>9. CASE g \in CrossoverGoals(adapter, c)
  <2>1. CASE c.autoneg
    <3>1. phy \in S
      BY <1>9, <2>1, SetupPhyRow
    <3>2. g.reg \in {"PORT_CTRL", "MDIX_CONTROL", "SPEC_CTRL"}
      BY <1>9 DEF CrossoverGoals, ModeGoals, XModeGoals, If, Goal
    <3>3. row \in K
      BY <2>1, <3>2, AutonegRow DEF RowsOn
    <3> QED
      BY <1>1, <1>2, <3>1, <3>3
  <2>2. CASE ~c.autoneg
    <3>1. row \in S
      BY <1>9, <2>2, ForceRow
    <3> QED
      BY <1>1, <1>2, <3>1
  <2> QED
    BY <1>3, <2>1, <2>2
<1>10. CASE adapter.mac = "80003" /\ g \in {Goal("KMRN_INB", "DIS_PADDING", TRUE), Goal("INBAND", "DIS_PADDING", TRUE)}
  <2>1. g.reg \in {"KMRN_INB", "INBAND"} /\ g.bit = "DIS_PADDING" /\ g.to = 1
    BY <1>10 DEF Goal
  <2>2. row \in K
    BY <2>1, AutonegRow, ForceRow DEF RowsOn
  <2>3. CASE g.reg = "KMRN_INB"
    <3>1. kt \in S
      BY <1>10, <2>1, <2>3, KumeranTimeoutsRow
    <3> QED
      BY <1>1, <1>2, <2>2, <2>3, <3>1
  <2>4. CASE g = Goal("INBAND", "DIS_PADDING", TRUE)
    <3>1. phy \in S
      BY <1>10, <2>4, SetupPhyRow
    <3> QED
      BY <1>1, <1>2, <2>2, <3>1
  <2>5. g = Goal("KMRN_INB", "DIS_PADDING", TRUE) => g.reg = "KMRN_INB"
    BY DEF Goal
  <2> QED
    BY <1>10, <2>3, <2>4, <2>5
<1> QED
  BY <1>3, <1>4, <1>5, <1>6, <1>7, <1>8, <1>9, <1>10 DEF SetupGoals, If

LEMMA KumeranRow ==
    ASSUME NEW a, NEW gigabit \in BOOLEAN, NEW half \in BOOLEAN, NEW g \in GoalType
    PROVE  /\ Kumeran(gigabit, half) \in Rows(a, g)
           /\ g \in {Goal("KMRN_HD", "1000", gigabit), Goal("TIPG", "IPGT_1000", gigabit),
                     Goal("KMRN_MODE", "PASS_FALSE_CARRIER", half)}
                => Kumeran(gigabit, half) \in SetRows(a, g)
<1> DEFINE K == KeepRows(a, g)
           hd == IF gigabit THEN {"1000"} ELSE {}
           gap == IF gigabit THEN {"IPGT_1000"} ELSE {}
           fc == IF half THEN {"PASS_FALSE_CARRIER"} ELSE {}
           p == <<Edit("KMRN_HD", Bits("KMRN_HD"), hd)>>
           q == <<Mac("TIPG", {"IPGT_1000"}, gap)>>
           r == <<Edit("KMRN_MODE", {"PASS_FALSE_CARRIER"}, fc)>>
<1>1. /\ g = Goal("KMRN_HD", "1000", gigabit) =>
           g.reg = "KMRN_HD" /\ IF g.to = 1 THEN g.bit \in hd ELSE g.bit \in Bits("KMRN_HD") \ hd
      /\ g = Goal("TIPG", "IPGT_1000", gigabit) =>
           g.reg = "TIPG" /\ IF g.to = 1 THEN g.bit \in gap ELSE g.bit \in {"IPGT_1000"} \ gap
      /\ g = Goal("KMRN_MODE", "PASS_FALSE_CARRIER", half) =>
           g.reg = "KMRN_MODE" /\ IF g.to = 1 THEN g.bit \in fc ELSE g.bit \in {"PASS_FALSE_CARRIER"} \ fc
  BY BitNames DEF Goal
<1>2. /\ hd \in SUBSET Bits("KMRN_HD") /\ Bits("KMRN_HD") \in SUBSET Bits("KMRN_HD")
      /\ gap \in SUBSET Bits("TIPG") /\ {"IPGT_1000"} \in SUBSET Bits("TIPG")
      /\ fc \in SUBSET Bits("KMRN_MODE") /\ {"PASS_FALSE_CARRIER"} \in SUBSET Bits("KMRN_MODE")
      /\ {"KMRN_HD", "TIPG", "KMRN_MODE"} \subseteq Registers \ {"KMRN_DIAG"}
  BY BitNames, RegisterNames
<1>3. Kumeran(gigabit, half) = p \o q \o r
  <2> DEFINE s == Edit("KMRN_HD", Bits("KMRN_HD"), hd)
             t == Mac("TIPG", {"IPGT_1000"}, gap)
             u == Edit("KMRN_MODE", {"PASS_FALSE_CARRIER"}, fc)
  <2>1. Kumeran(gigabit, half) = <<s, t, u>> /\ p = <<s>> /\ q = <<t>> /\ r = <<u>>
    BY DEF Kumeran, Write
  <2> HIDE DEF s, t, u, p, q, r
  <2>2. <<s, t>> = <<s>> \o <<t>>
    BY Tuples
  <2>3. <<s, t, u>> = <<s, t>> \o <<u>>
    BY Tuples
  <2> QED
    BY <2>1, <2>2, <2>3
<1> HIDE DEF hd, gap, fc
<1>4. /\ p \in Rows(a, g) /\ (g.reg # "KMRN_HD" => p \in K)
      /\ g = Goal("KMRN_HD", "1000", gigabit) => p \in SetRows(a, g) /\ g.reg = "KMRN_HD"
  BY <1>1, <1>2, ChangeRow
<1>5. /\ q \in Rows(a, g) /\ (g.reg # "TIPG" => q \in K)
      /\ g = Goal("TIPG", "IPGT_1000", gigabit) => q \in SetRows(a, g) /\ g.reg = "TIPG"
  BY <1>1, <1>2, ChangeRow
<1>6. /\ r \in Rows(a, g) /\ (g.reg # "KMRN_MODE" => r \in K)
      /\ g = Goal("KMRN_MODE", "PASS_FALSE_CARRIER", half) => r \in SetRows(a, g)
  BY <1>1, <1>2, ChangeRow
<1> HIDE DEF p, q, r
<1>7. /\ p \o q \in Rows(a, g)
      /\ p \in SetRows(a, g) /\ q \in K => p \o q \in SetRows(a, g)
      /\ q \in SetRows(a, g) => p \o q \in SetRows(a, g)
  BY <1>4, <1>5, RowsCat
<1>8. /\ p \o q \o r \in Rows(a, g)
      /\ p \o q \in SetRows(a, g) /\ r \in K => p \o q \o r \in SetRows(a, g)
      /\ r \in SetRows(a, g) => p \o q \o r \in SetRows(a, g)
  BY <1>6, <1>7, RowsCat
<1> QED
  BY <1>3, <1>4, <1>5, <1>6, <1>7, <1>8
-----------------------------------------------------------------------------
(* The loopback of the gigabit workaround.                                 *)

LEMMA LoopbackIs ==
    /\ LoopbackOff \in GoalType /\ ~LoopbackOff.ign
    /\ LoopbackOff.reg = "KMRN_DIAG" /\ LoopbackOff.bit = "NELPBK" /\ LoopbackOff.to = 0
<1>1. "KMRN_DIAG" \in Registers /\ "NELPBK" \in AllBits
  BY RegisterNames, BitNames, BitsInAll
<1> QED
  BY <1>1 DEF LoopbackOff, Watched, Goal, GoalType

\* The step that sets the loopback is directly followed by the one that takes it back.
LEMMA GigDownshiftUndone ==
    ASSUME Is82566, NEW g, g = LoopbackOff
    PROVE  Ignoring(GigDownshift) \in KeepRows(adapter, g)
<1> DEFINE q == Ignoring(GigDownshift)
           s == [Edit("KMRN_DIAG", {}, {"NELPBK"}) EXCEPT !.strict = FALSE, !.skip = 1]
           t == [Edit("KMRN_DIAG", {"NELPBK"}, {}) EXCEPT !.strict = FALSE, !.skip = 0]
<1>1. g.reg = "KMRN_DIAG" /\ g.bit = "NELPBK" /\ g.to = 0 /\ ~g.ign
  BY LoopbackIs
<1>2. q = <<s, t>>
  <2> DEFINE e == Edit("KMRN_DIAG", {}, {"NELPBK"})
             f == Edit("KMRN_DIAG", {"NELPBK"}, {})
             p == <<e, f>>
  <2>1. GigDownshift = p
    BY DEF GigDownshift, When
  <2>2. DOMAIN p = 1 .. 2 /\ Len(p) = 2 /\ p[1] = e /\ p[2] = f
    OBVIOUS
  <2>3. q = [i \in 1 .. 2 |-> [p[i] EXCEPT !.strict = FALSE, !.skip = 2 - i]]
    BY <2>1, <2>2 DEF Ignoring
  <2>4. s = [p[1] EXCEPT !.strict = FALSE, !.skip = 2 - 1] /\ t = [p[2] EXCEPT !.strict = FALSE, !.skip = 2 - 2]
    BY <2>2
  <2> HIDE DEF e, f, p, s, t, q
  <2>5. q = [i \in 1 .. 2 |-> IF i = 1 THEN s ELSE t]
    BY <2>3, <2>4
  <2>6. <<s, t>> = [i \in 1 .. 2 |-> IF i = 1 THEN s ELSE t]
    OBVIOUS
  <2> QED
    BY <2>5, <2>6
<1>3. /\ s \in Steps(adapter) /\ s.do = "edit" /\ s.strict = FALSE /\ s.reg = "KMRN_DIAG"
      /\ t \in Steps(adapter) /\ t.do = "edit" /\ t.strict = FALSE /\ t.reg = "KMRN_DIAG"
      /\ t.off = {"NELPBK"} /\ t.on = {}
  <2>1. /\ "KMRN_DIAG" \in Registers /\ {} \in SUBSET AllBits /\ {"NELPBK"} \in SUBSET AllBits
        /\ {"NELPBK"} \in SUBSET Bits("KMRN_DIAG")
    BY RegisterNames, BitNames, BitsInAll
  <2> QED
    BY <2>1 DEF Edit, Step, Steps, Edits, Is82566
<1> HIDE DEF s, t
<1>4. s \in Passing(adapter) /\ t \in Passing(adapter) /\ t \in Setting(adapter, g) /\ t \in Keeping(adapter, g)
  BY <1>1, <1>3 DEF Passing, Setting, Keeping, Edits, Ends, Resets
<1>5. Skipped(s, g) = 0 /\ Skipped(t, g) = 0
  BY <1>1, <1>3 DEF Skipped
<1>6. q \in Seq(Steps(adapter)) /\ Len(q) = 2 /\ q[1] = s /\ q[2] = t
  BY <1>2, <1>3
<1> HIDE DEF q
<1>7. Passes(adapter, q, g) /\ Keeps(adapter, q, g)
  BY <1>4, <1>5, <1>6 DEF Passes, Keeps, KeepsFrom
<1> QED
  BY <1>6, <1>7 DEF q, KeepRows, Rows

LEMMA GigDownshiftRow ==
    ASSUME NEW g \in GoalType
    PROVE  LET q == Ignoring(GigDownshift)
           IN  /\ q \in RowsOn(adapter, g, {"KMRN_DIAG"})
               /\ g = LoopbackOff => q \in KeepRows(adapter, g)
<1> DEFINE q == Ignoring(GigDownshift)
<1>1. CASE ~Is82566
  <2>1. GigDownshift = <<>>
    BY <1>1 DEF GigDownshift, When
  <2>2. q \in Seq(Steps(adapter)) /\ Passes(adapter, q, g) /\ Keeps(adapter, q, g)
    <3> DEFINE e == <<>>
    <3>1. e \in Seq(Steps(adapter)) /\ Passes(adapter, e, g) /\ Len(e) = 0
      BY NoSteps
    <3>2. q = Ignoring(e)
      BY <2>1
    <3> HIDE DEF e, q
    <3>3. \A i \in 1 .. Len(e) : e[i] \in Keeping(adapter, g)
      BY <3>1
    <3> QED
      BY <3>1, <3>2, <3>3, IgnoringRow
  <2> QED
    BY <1>1, <2>2 DEF RowsOn, KeepRows, Rows
<1>2. CASE Is82566
  <2> DEFINE s == Edit("KMRN_DIAG", {}, {"NELPBK"})
             t == Edit("KMRN_DIAG", {"NELPBK"}, {})
             p == <<s, t>>
  <2>1. /\ s \in Steps(adapter) /\ s.do = "edit" /\ s.skip = 0 /\ s.reg = "KMRN_DIAG"
        /\ t \in Steps(adapter) /\ t.do = "edit" /\ t.skip = 0 /\ t.reg = "KMRN_DIAG"
    <3>1. /\ "KMRN_DIAG" \in Registers /\ {} \in SUBSET AllBits /\ {"NELPBK"} \in SUBSET AllBits
          /\ {"NELPBK"} \in SUBSET Bits("KMRN_DIAG")
      BY RegisterNames, BitNames, BitsInAll
    <3> QED
      BY <1>2, <3>1 DEF Edit, Step, Steps, Edits, Is82566
  <2>2. GigDownshift = p
    BY <1>2 DEF GigDownshift, When
  <2> HIDE DEF s, t
  <2>3. /\ s \in Passing(adapter) /\ t \in Passing(adapter)
        /\ Skipped(s, g) = 0 /\ Skipped(t, g) = 0
        /\ g.reg # "KMRN_DIAG" => s \in Keeping(adapter, g) /\ t \in Keeping(adapter, g)
    BY <2>1 DEF Passing, Keeping, Ends, Resets, Skipped
  <2>4. p \in Seq(Steps(adapter)) /\ Len(p) = 2 /\ p[1] = s /\ p[2] = t
    BY <2>1
  <2> HIDE DEF p
  <2>5. Passes(adapter, p, g) /\ (g.reg # "KMRN_DIAG" => \A i \in 1 .. Len(p) : p[i] \in Keeping(adapter, g))
    BY <2>3, <2>4 DEF Passes
  <2>6. q \in RowsOn(adapter, g, {"KMRN_DIAG"})
    BY <2>2, <2>3, <2>4, <2>5, IgnoringRow DEF RowsOn, KeepRows, Rows
  <2>7. g = LoopbackOff => q \in KeepRows(adapter, g)
    BY <1>2, GigDownshiftUndone
  <2> QED
    BY <2>6, <2>7
<1> QED
  BY <1>1, <1>2

LEMMA IgnoringOne ==
    ASSUME NEW a, NEW g \in GoalType, NEW R, NEW s \in Steps(a), <<s>> \in RowsOn(a, g, R)
    PROVE  /\ Ignoring(<<s>>) \in RowsOn(a, g, R)
           /\ ~g.ign /\ s \in Setting(a, g) => Ignoring(<<s>>) \in SetRows(a, g)
<1> DEFINE p == <<s>>
           q == Ignoring(p)
           t == [s EXCEPT !.strict = FALSE, !.skip = 0]
<1>1. p \in Seq(Steps(a)) /\ Len(p) = 1 /\ p[1] = s /\ Passes(a, p, g) /\ DOMAIN p = 1 .. 1
  BY DEF RowsOn, Rows
<1>2. g.reg \notin R => s \in Keeping(a, g)
  BY OneOfRow DEF RowsOn
<1>3. q[1] = t
  <2> HIDE DEF p
  <2>1. 1 \in DOMAIN p
    BY <1>1
  <2>2. q[1] = [p[1] EXCEPT !.strict = FALSE, !.skip = Len(p) - 1]
    BY <2>1 DEF Ignoring
  <2> QED
    BY <1>1, <2>2
<1> HIDE DEF p, q
<1>4. q \in Seq(Steps(a)) /\ Len(q) = 1 /\ Passes(a, q, g) /\ (g.reg \notin R => Keeps(a, q, g))
  BY <1>1, <1>2, IgnoringRow DEF q
<1>5. ~g.ign /\ s \in Setting(a, g) => q[1] \in Setting(a, g)
  <2>0. s \in [do : Edits \cup Resets \cup Ends \cup {"mac", "access", "fail"},
                reg : Registers \cup {"none"}, off : SUBSET AllBits, on : SUBSET AllBits,
                strict : BOOLEAN, skip : Nat]
    BY DEF Steps
  <2>1. t.do = s.do /\ t.reg = s.reg /\ t.off = s.off /\ t.on = s.on /\ t.strict = FALSE
    BY <2>0
  <2>2. t \in Steps(a)
    BY <1>3, <1>4, ElementOfSeq
  <2> QED
    BY <1>1, <1>3, <2>1, <2>2 DEF Setting
<1>6. q[1] \in Setting(a, g) => Reaches(a, q, g)
  BY <1>4 DEF Reaches, KeepsFrom
<1> QED
  BY <1>4, <1>5, <1>6 DEF q, p, RowsOn, Rows, KeepRows, SetRows

\* What calls that turn low power link up on or off are to leave.
LEMMA LpluGoalIs ==
    ASSUME TypeOK, NEW c \in Configs[adapter], NEW ich, NEW igp, NEW on \in BOOLEAN,
           NEW g \in LpluGoals(adapter, c, ich, igp, on)
    PROVE  /\ ~g.ign
           /\ \/ IsIch /\ g.reg = "PHY_CTRL" /\ g.bit = ich /\ (g.to = 1 <=> on)
              \/ ~IsIch /\ g.reg = "POWER_MGMT" /\ g.bit = igp /\ (g.to = 1 <=> on)
              \/ /\ on \/ c.smart_speed # "default"
                 /\ g.reg = "PORT_CONFIG" /\ g.bit = "SMART_SPEED" /\ (g.to = 1 <=> ~on /\ c.smart_speed = "on")
<1>1. CASE g = Watched(Goal("PHY_CTRL", ich, on)) /\ IsIch
  BY <1>1 DEF Watched, Goal
<1>2. CASE g = Watched(Goal("POWER_MGMT", igp, on)) /\ ~IsIch
  BY <1>2 DEF Watched, Goal
<1>3. CASE /\ on \/ c.smart_speed # "default"
           /\ g = Watched(Goal("PORT_CONFIG", "SMART_SPEED", ~on /\ c.smart_speed = "on"))
  BY <1>3 DEF Watched, Goal
<1> QED
  BY <1>1, <1>2, <1>3 DEF LpluGoals, If, IsIch

\* An edit is a row that sets its bits and disturbs its register only.
LEMMA EditSets ==
    ASSUME NEW a, NEW g \in GoalType, NEW r \in Registers \ {"KMRN_DIAG"},
           NEW off \in SUBSET Bits(r), NEW on \in SUBSET Bits(r),
           NEW s \in {Edit(r, off, on), Mac(r, off, on)}
    PROVE  /\ s \in Steps(a) /\ <<s>> \in RowsOn(a, g, {r})
           /\ g.reg = r /\ (IF g.to = 1 THEN g.bit \in on ELSE g.bit \in off \ on) => <<s>> \in SetRows(a, g)
<1>1. s \in Steps(a) /\ <<s>> \in RowsOn(a, g, {r})
  BY ChangeRow DEF RowsOn
<1>2. g.reg = r /\ (IF g.to = 1 THEN g.bit \in on ELSE g.bit \in off \ on) => <<s>> \in SetRows(a, g)
  BY ChangeRow
<1> QED
  BY <1>1, <1>2

\* What SmartSpeed's bit is made on the way: cleared, as one edit or with an unread result.
LEMMA SmartSpeedOffRow ==
    ASSUME NEW a, NEW g \in GoalType
    PROVE  \A s \in {SmartSpeedOff, SmartSpeedOffUnread} :
              /\ <<s>> \in RowsOn(a, g, {"PORT_CONFIG"})
              /\ g.reg = "PORT_CONFIG" /\ g.bit = "SMART_SPEED" /\ g.to = 0 /\ ~g.ign => <<s>> \in SetRows(a, g)
<1> DEFINE off == {"SMART_SPEED"}
           on == {}
<1>1. off \in SUBSET Bits("PORT_CONFIG") /\ on \in SUBSET Bits("PORT_CONFIG") /\ "PORT_CONFIG" \in Registers \ {"KMRN_DIAG"}
  BY RegisterNames, BitNames
<1>2. SmartSpeedOff = Edit("PORT_CONFIG", off, on) /\ SmartSpeedOffUnread = EditUnread("PORT_CONFIG", off, on, "junk")
  BY DEF SmartSpeedOff, SmartSpeedOffUnread
<1>3. g.bit = "SMART_SPEED" /\ g.to = 0 => IF g.to = 1 THEN g.bit \in on ELSE g.bit \in off \ on
  OBVIOUS
<1> HIDE DEF off, on
<1>4. LET s == SmartSpeedOff
      IN  /\ <<s>> \in RowsOn(a, g, {"PORT_CONFIG"})
          /\ g.reg = "PORT_CONFIG" /\ g.bit = "SMART_SPEED" /\ g.to = 0 => <<s>> \in SetRows(a, g)
  BY <1>1, <1>2, <1>3, EditSets
<1>5. LET s == SmartSpeedOffUnread
      IN  /\ <<s>> \in RowsOn(a, g, {"PORT_CONFIG"})
          /\ g.reg = "PORT_CONFIG" /\ g.bit = "SMART_SPEED" /\ g.to = 0 /\ ~g.ign => <<s>> \in SetRows(a, g)
  BY <1>1, <1>2, <1>3, UnreadRow DEF RowsOn
<1> QED
  BY <1>4, <1>5

LEMMA D0LpluOnRow ==
    ASSUME TypeOK, NEW c \in Configs[adapter], NEW g \in GoalType
    PROVE  /\ D0LpluOn(c) \in Rows(adapter, g)
           /\ (/\ adapter.phy # "ife" /\ adapter.mac # "80003"
               /\ g \in LpluGoals(adapter, c, "D0A_LPLU", "D0_LPLU", TRUE))
                => D0LpluOn(c) \in SetRows(adapter, g)
           /\ g = LoopbackOff => D0LpluOn(c) \in KeepRows(adapter, g)
<1> DEFINE e == {}
           ich == {"D0A_LPLU"}
           igp == {"D0_LPLU"}
           m == Mac("PHY_CTRL", e, ich)
           p == Edit("POWER_MGMT", e, igp)
           u == SmartSpeedOffUnread
           d == Ignoring(GigDownshift)
           wanted == g \in LpluGoals(adapter, c, "D0A_LPLU", "D0_LPLU", TRUE)
<1>1. /\ <<m>> \in RowsOn(adapter, g, {"PHY_CTRL"})
      /\ g.reg = "PHY_CTRL" /\ g.bit = "D0A_LPLU" /\ g.to = 1 => <<m>> \in SetRows(adapter, g)
  <2>1. /\ e \in SUBSET Bits("PHY_CTRL") /\ ich \in SUBSET Bits("PHY_CTRL") /\ "PHY_CTRL" \in Registers \ {"KMRN_DIAG"}
        /\ g.bit = "D0A_LPLU" /\ g.to = 1 => IF g.to = 1 THEN g.bit \in ich ELSE g.bit \in e \ ich
    BY RegisterNames, BitNames
  <2> HIDE DEF e, ich
  <2> QED
    BY <2>1, EditSets
<1>2. /\ <<p>> \in RowsOn(adapter, g, {"POWER_MGMT"})
      /\ g.reg = "POWER_MGMT" /\ g.bit = "D0_LPLU" /\ g.to = 1 => <<p>> \in SetRows(adapter, g)
  <2>1. /\ e \in SUBSET Bits("POWER_MGMT") /\ igp \in SUBSET Bits("POWER_MGMT") /\ "POWER_MGMT" \in Registers \ {"KMRN_DIAG"}
        /\ g.bit = "D0_LPLU" /\ g.to = 1 => IF g.to = 1 THEN g.bit \in igp ELSE g.bit \in e \ igp
    BY RegisterNames, BitNames
  <2> HIDE DEF e, igp
  <2> QED
    BY <2>1, EditSets
<1>3. /\ <<u>> \in RowsOn(adapter, g, {"PORT_CONFIG"})
      /\ g.reg = "PORT_CONFIG" /\ g.bit = "SMART_SPEED" /\ g.to = 0 /\ ~g.ign => <<u>> \in SetRows(adapter, g)
  BY SmartSpeedOffRow
<1>4. d \in RowsOn(adapter, g, {"KMRN_DIAG"}) /\ (g = LoopbackOff => d \in KeepRows(adapter, g))
  BY GigDownshiftRow
<1>9. g = LoopbackOff => g.reg = "KMRN_DIAG"
  BY LoopbackIs
<1>5. wanted => /\ ~g.ign /\ g.reg # "KMRN_DIAG"
                /\ \/ IsIch /\ g.reg = "PHY_CTRL" /\ g.bit = "D0A_LPLU" /\ g.to = 1
                   \/ ~IsIch /\ g.reg = "POWER_MGMT" /\ g.bit = "D0_LPLU" /\ g.to = 1
                   \/ g.reg = "PORT_CONFIG" /\ g.bit = "SMART_SPEED" /\ g.to = 0
  <2> SUFFICES ASSUME wanted
               PROVE  /\ ~g.ign /\ g.reg # "KMRN_DIAG"
                      /\ \/ IsIch /\ g.reg = "PHY_CTRL" /\ g.bit = "D0A_LPLU" /\ g.to = 1
                         \/ ~IsIch /\ g.reg = "POWER_MGMT" /\ g.bit = "D0_LPLU" /\ g.to = 1
                         \/ g.reg = "PORT_CONFIG" /\ g.bit = "SMART_SPEED" /\ g.to = 0
    OBVIOUS
  <2>1. /\ ~g.ign
        /\ \/ IsIch /\ g.reg = "PHY_CTRL" /\ g.bit = "D0A_LPLU" /\ (g.to = 1 <=> TRUE)
           \/ ~IsIch /\ g.reg = "POWER_MGMT" /\ g.bit = "D0_LPLU" /\ (g.to = 1 <=> TRUE)
           \/ /\ TRUE \/ c.smart_speed # "default"
              /\ g.reg = "PORT_CONFIG" /\ g.bit = "SMART_SPEED" /\ (g.to = 1 <=> ~TRUE /\ c.smart_speed = "on")
    BY LpluGoalIs
  <2>2. g.to \in {0, 1}
    BY DEF GoalType
  <2> QED
    BY <2>1, <2>2
<1>6. CASE IsIch
  <2>1. D0LpluOn(c) = IF adapter.phy # "ife" THEN <<m>> \o d \o <<u>> ELSE <<>>
    BY <1>6 DEF D0LpluOn, When, IsIch
  <2> HIDE DEF m, d, u, wanted
  <2>2. <<m>> \o d \in Rows(adapter, g) /\ <<m>> \o d \o <<u>> \in Rows(adapter, g)
    BY <1>1, <1>3, <1>4, RowsCat DEF RowsOn
  <2>3. wanted => <<m>> \o d \o <<u>> \in SetRows(adapter, g)
    <3>1. CASE g.reg = "PHY_CTRL" /\ g.bit = "D0A_LPLU" /\ g.to = 1
      <4>1. <<m>> \o d \in SetRows(adapter, g)
        BY <1>1, <1>4, <3>1, RowsCat DEF RowsOn
      <4> QED
        BY <1>1, <1>3, <1>4, <2>2, <3>1, <4>1, RowsCat DEF RowsOn
    <3>2. CASE g.reg = "PORT_CONFIG" /\ g.bit = "SMART_SPEED" /\ g.to = 0 /\ ~g.ign
      BY <1>3, <2>2, <3>2, RowsCat DEF RowsOn
    <3> QED
      BY <1>5, <1>6, <3>1, <3>2
  <2>4. g = LoopbackOff => <<m>> \o d \in KeepRows(adapter, g) /\ <<m>> \o d \o <<u>> \in KeepRows(adapter, g)
    BY <1>1, <1>3, <1>4, <1>9, RowsCat DEF RowsOn
  <2> QED
    BY <2>1, <2>2, <2>3, <2>4, RowsCat DEF wanted
<1>7. CASE ~IsIch /\ adapter.mac = "82571"
  <2>1. D0LpluOn(c) = <<p>> \o <<u>>
    <3>1. D0LpluOn(c) = <<p, u>>
      BY <1>7 DEF D0LpluOn, IsIch
    <3> HIDE DEF p, u
    <3> QED
      BY <3>1, Tuples
  <2> HIDE DEF p, u, wanted
  <2>2. <<p>> \o <<u>> \in Rows(adapter, g)
    BY <1>2, <1>3, RowsCat DEF RowsOn
  <2>3. wanted => <<p>> \o <<u>> \in SetRows(adapter, g)
    BY <1>2, <1>3, <1>5, <1>7, RowsCat DEF RowsOn
  <2>4. g = LoopbackOff => <<p>> \o <<u>> \in KeepRows(adapter, g)
    BY <1>2, <1>3, <1>9, RowsCat DEF RowsOn
  <2> QED
    BY <2>1, <2>2, <2>3, <2>4 DEF wanted
<1>8. CASE ~IsIch /\ adapter.mac # "82571"
  <2>1. D0LpluOn(c) = <<>> /\ adapter.mac = "80003"
    BY <1>8, Kinds DEF D0LpluOn, IsIch
  <2> QED
    BY <2>1, RowsCat
<1> QED
  BY <1>6, <1>7, <1>8

LEMMA D3LpluOnRow ==
    ASSUME TypeOK, NEW c \in Configs[adapter], NEW g \in GoalType
    PROVE  /\ D3LpluOn(c) \in Rows(adapter, g)
           /\ c.advertised # "1000" /\ g \in LpluGoals(adapter, c, "NOND0A_LPLU", "D3_LPLU", TRUE)
                => D3LpluOn(c) \in SetRows(adapter, g)
           /\ g = LoopbackOff => D3LpluOn(c) \in KeepRows(adapter, g)
<1> DEFINE e == {}
           ich == {"NOND0A_LPLU"}
           igp == {"D3_LPLU"}
           m == Mac("PHY_CTRL", e, ich)
           p == Edit("POWER_MGMT", e, igp)
           u == SmartSpeedOff
           d == Ignoring(GigDownshift)
           wanted == g \in LpluGoals(adapter, c, "NOND0A_LPLU", "D3_LPLU", TRUE)
<1>1. /\ <<m>> \in RowsOn(adapter, g, {"PHY_CTRL"})
      /\ g.reg = "PHY_CTRL" /\ g.bit = "NOND0A_LPLU" /\ g.to = 1 => <<m>> \in SetRows(adapter, g)
  <2>1. /\ e \in SUBSET Bits("PHY_CTRL") /\ ich \in SUBSET Bits("PHY_CTRL") /\ "PHY_CTRL" \in Registers \ {"KMRN_DIAG"}
        /\ g.bit = "NOND0A_LPLU" /\ g.to = 1 => IF g.to = 1 THEN g.bit \in ich ELSE g.bit \in e \ ich
    BY RegisterNames, BitNames
  <2> HIDE DEF e, ich
  <2> QED
    BY <2>1, EditSets
<1>2. /\ <<p>> \in RowsOn(adapter, g, {"POWER_MGMT"})
      /\ g.reg = "POWER_MGMT" /\ g.bit = "D3_LPLU" /\ g.to = 1 => <<p>> \in SetRows(adapter, g)
  <2>1. /\ e \in SUBSET Bits("POWER_MGMT") /\ igp \in SUBSET Bits("POWER_MGMT") /\ "POWER_MGMT" \in Registers \ {"KMRN_DIAG"}
        /\ g.bit = "D3_LPLU" /\ g.to = 1 => IF g.to = 1 THEN g.bit \in igp ELSE g.bit \in e \ igp
    BY RegisterNames, BitNames
  <2> HIDE DEF e, igp
  <2> QED
    BY <2>1, EditSets
<1>3. /\ <<u>> \in RowsOn(adapter, g, {"PORT_CONFIG"})
      /\ g.reg = "PORT_CONFIG" /\ g.bit = "SMART_SPEED" /\ g.to = 0 /\ ~g.ign => <<u>> \in SetRows(adapter, g)
  BY SmartSpeedOffRow
<1>4. /\ d \in RowsOn(adapter, g, {"KMRN_DIAG"})
      /\ g = LoopbackOff => d \in KeepRows(adapter, g)
  BY GigDownshiftRow
<1>5. wanted => /\ ~g.ign /\ g.reg # "KMRN_DIAG"
                /\ \/ IsIch /\ g.reg = "PHY_CTRL" /\ g.bit = "NOND0A_LPLU" /\ g.to = 1
                   \/ ~IsIch /\ g.reg = "POWER_MGMT" /\ g.bit = "D3_LPLU" /\ g.to = 1
                   \/ g.reg = "PORT_CONFIG" /\ g.bit = "SMART_SPEED" /\ g.to = 0
  <2> SUFFICES ASSUME wanted
               PROVE  /\ ~g.ign /\ g.reg # "KMRN_DIAG"
                      /\ \/ IsIch /\ g.reg = "PHY_CTRL" /\ g.bit = "NOND0A_LPLU" /\ g.to = 1
                         \/ ~IsIch /\ g.reg = "POWER_MGMT" /\ g.bit = "D3_LPLU" /\ g.to = 1
                         \/ g.reg = "PORT_CONFIG" /\ g.bit = "SMART_SPEED" /\ g.to = 0
    OBVIOUS
  <2>1. /\ ~g.ign
        /\ \/ IsIch /\ g.reg = "PHY_CTRL" /\ g.bit = "NOND0A_LPLU" /\ (g.to = 1 <=> TRUE)
           \/ ~IsIch /\ g.reg = "POWER_MGMT" /\ g.bit = "D3_LPLU" /\ (g.to = 1 <=> TRUE)
           \/ /\ TRUE \/ c.smart_speed # "default"
              /\ g.reg = "PORT_CONFIG" /\ g.bit = "SMART_SPEED" /\ (g.to = 1 <=> ~TRUE /\ c.smart_speed = "on")
    BY LpluGoalIs
  <2>2. g.to \in {0, 1}
    BY DEF GoalType
  <2> QED
    BY <2>1, <2>2
<1>6. g = LoopbackOff => g.reg = "KMRN_DIAG"
  BY LoopbackIs
<1>7. D3LpluOn(c) = IF c.advertised # "1000" THEN (IF IsIch THEN <<m>> \o d ELSE <<p>>) \o <<u>> ELSE <<>>
  <2>1. c.advertised # "1000" <=> c.advertised \in {"all", "10/100"}
    BY Kinds
  <2> QED
    BY <2>1 DEF D3LpluOn, When
<1> HIDE DEF m, d, u, p, wanted
<1>8. CASE IsIch
  <2>1. <<m>> \o d \in Rows(adapter, g) /\ <<m>> \o d \o <<u>> \in Rows(adapter, g)
    BY <1>1, <1>3, <1>4, RowsCat DEF RowsOn
  <2>2. wanted => <<m>> \o d \o <<u>> \in SetRows(adapter, g)
    <3>1. CASE g.reg = "PHY_CTRL" /\ g.bit = "NOND0A_LPLU" /\ g.to = 1
      <4>1. <<m>> \o d \in SetRows(adapter, g)
        BY <1>1, <1>4, <3>1, RowsCat DEF RowsOn
      <4> QED
        BY <1>1, <1>3, <1>4, <2>1, <3>1, <4>1, RowsCat DEF RowsOn
    <3>2. CASE g.reg = "PORT_CONFIG" /\ g.bit = "SMART_SPEED" /\ g.to = 0 /\ ~g.ign
      BY <1>3, <2>1, <3>2, RowsCat DEF RowsOn
    <3> QED
      BY <1>5, <1>8, <3>1, <3>2
  <2>3. g = LoopbackOff => <<m>> \o d \in KeepRows(adapter, g) /\ <<m>> \o d \o <<u>> \in KeepRows(adapter, g)
    BY <1>1, <1>3, <1>4, <1>6, RowsCat DEF RowsOn
  <2> QED
    BY <1>7, <1>8, <2>1, <2>2, <2>3, RowsCat DEF wanted
<1>9. CASE ~IsIch
  <2>1. <<p>> \o <<u>> \in Rows(adapter, g)
    BY <1>2, <1>3, RowsCat DEF RowsOn
  <2>2. wanted => <<p>> \o <<u>> \in SetRows(adapter, g)
    BY <1>2, <1>3, <1>5, <1>9, RowsCat DEF RowsOn
  <2>3. g = LoopbackOff => <<p>> \o <<u>> \in KeepRows(adapter, g)
    BY <1>2, <1>3, <1>6, RowsCat DEF RowsOn
  <2> QED
    BY <1>7, <1>9, <2>1, <2>2, <2>3, RowsCat DEF wanted
<1> QED
  BY <1>8, <1>9

\* What calls that turn low power link up off are to leave.
LEMMA LpluOffGoals ==
    ASSUME TypeOK, NEW c \in Configs[adapter], NEW g \in GoalType, NEW ich, NEW igp,
           g \in LpluGoals(adapter, c, ich, igp, FALSE)
    PROVE  /\ ~g.ign
           /\ \/ IsIch /\ g.reg = "PHY_CTRL" /\ g.bit = ich /\ g.to = 0
              \/ ~IsIch /\ g.reg = "POWER_MGMT" /\ g.bit = igp /\ g.to = 0
              \/ /\ c.smart_speed # "default"
                 /\ g.reg = "PORT_CONFIG" /\ g.bit = "SMART_SPEED" /\ (g.to = 1 <=> c.smart_speed = "on")
<1>1. /\ ~g.ign
      /\ \/ IsIch /\ g.reg = "PHY_CTRL" /\ g.bit = ich /\ (g.to = 1 <=> FALSE)
         \/ ~IsIch /\ g.reg = "POWER_MGMT" /\ g.bit = igp /\ (g.to = 1 <=> FALSE)
         \/ /\ FALSE \/ c.smart_speed # "default"
            /\ g.reg = "PORT_CONFIG" /\ g.bit = "SMART_SPEED" /\ (g.to = 1 <=> ~FALSE /\ c.smart_speed = "on")
  BY LpluGoalIs
<1>2. g.to \in {0, 1}
  BY DEF GoalType
<1> QED
  BY <1>1, <1>2

\* The edit that turns low power link up off.
LEMMA LpluOffStep ==
    ASSUME NEW a, NEW g \in GoalType, NEW r \in Registers \ {"KMRN_DIAG"}, NEW b \in Bits(r)
    PROVE  \A s \in {Mac(r, {b}, {}), Edit(r, {b}, {})} :
              /\ s \in Steps(a) /\ <<s>> \in RowsOn(a, g, {r})
              /\ g.reg = r /\ g.bit = b /\ g.to = 0 => <<s>> \in SetRows(a, g)
<1> DEFINE off == {b}
           on == {}
<1>1. off \in SUBSET Bits(r) /\ on \in SUBSET Bits(r)
  OBVIOUS
<1>2. g.bit = b /\ g.to = 0 => IF g.to = 1 THEN g.bit \in on ELSE g.bit \in off \ on
  OBVIOUS
<1> HIDE DEF off, on
<1>3. ASSUME NEW s \in {Edit(r, off, on), Mac(r, off, on)}
      PROVE  /\ s \in Steps(a) /\ <<s>> \in RowsOn(a, g, {r})
             /\ g.reg = r /\ g.bit = b /\ g.to = 0 => <<s>> \in SetRows(a, g)
  <2>1. s \in Steps(a) /\ <<s>> \in RowsOn(a, g, {r})
    BY <1>1, EditSets
  <2>2. ASSUME g.reg = r, IF g.to = 1 THEN g.bit \in on ELSE g.bit \in off \ on
        PROVE  <<s>> \in SetRows(a, g)
    BY <1>1, <2>2, EditSets
  <2> QED
    BY <1>2, <2>1, <2>2
<1>4. \A s \in {Edit(r, off, on), Mac(r, off, on)} :
          /\ s \in Steps(a) /\ <<s>> \in RowsOn(a, g, {r})
          /\ g.reg = r /\ g.bit = b /\ g.to = 0 => <<s>> \in SetRows(a, g)
  BY <1>3
<1>5. {Mac(r, {b}, {}), Edit(r, {b}, {})} = {Edit(r, off, on), Mac(r, off, on)}
  BY DEF off, on
<1> QED
  BY <1>4, <1>5

LEMMA D3LpluOffRow ==
    ASSUME TypeOK, NEW c \in Configs[adapter], NEW g \in GoalType
    PROVE  /\ D3LpluOff(c) \in Rows(adapter, g)
           /\ g.reg \notin {"PHY_CTRL", "POWER_MGMT", "PORT_CONFIG"} => D3LpluOff(c) \in KeepRows(adapter, g)
           /\ g \in LpluGoals(adapter, c, "NOND0A_LPLU", "D3_LPLU", FALSE) => D3LpluOff(c) \in SetRows(adapter, g)
<1> DEFINE m == Mac("PHY_CTRL", {"NOND0A_LPLU"}, {})
           p == Edit("POWER_MGMT", {"D3_LPLU"}, {})
           s == IF IsIch THEN m ELSE p
           speed == SmartSpeed(c)
           wanted == g \in LpluGoals(adapter, c, "NOND0A_LPLU", "D3_LPLU", FALSE)
<1>1. /\ <<m>> \in RowsOn(adapter, g, {"PHY_CTRL"})
      /\ g.reg = "PHY_CTRL" /\ g.bit = "NOND0A_LPLU" /\ g.to = 0 => <<m>> \in SetRows(adapter, g)
  BY RegisterNames, BitNames, LpluOffStep
<1>2. /\ <<p>> \in RowsOn(adapter, g, {"POWER_MGMT"})
      /\ g.reg = "POWER_MGMT" /\ g.bit = "D3_LPLU" /\ g.to = 0 => <<p>> \in SetRows(adapter, g)
  BY RegisterNames, BitNames, LpluOffStep
<1>3. /\ speed \in RowsOn(adapter, g, {"PORT_CONFIG"})
      /\ c.smart_speed # "default" /\ g.reg = "PORT_CONFIG" /\ g.bit = "SMART_SPEED" /\ (g.to = 1 <=> c.smart_speed = "on")
           => speed \in SetRows(adapter, g)
  BY SmartSpeedRow DEF RowsOn
<1>4. D3LpluOff(c) = IF IsIch THEN <<m>> \o speed ELSE <<p>> \o speed
  BY DEF D3LpluOff
<1>5. wanted =>
         \/ IsIch /\ g.reg = "PHY_CTRL" /\ g.bit = "NOND0A_LPLU" /\ g.to = 0
         \/ ~IsIch /\ g.reg = "POWER_MGMT" /\ g.bit = "D3_LPLU" /\ g.to = 0
         \/ /\ c.smart_speed # "default"
            /\ g.reg = "PORT_CONFIG" /\ g.bit = "SMART_SPEED" /\ (g.to = 1 <=> c.smart_speed = "on")
  BY LpluOffGoals
<1> HIDE DEF m, p, speed, wanted
<1>6. CASE IsIch
  <2>1. <<m>> \o speed \in Rows(adapter, g)
    BY <1>1, <1>3, RowsCat DEF RowsOn
  <2>2. wanted => <<m>> \o speed \in SetRows(adapter, g)
    BY <1>1, <1>3, <1>5, <1>6, RowsCat DEF RowsOn
  <2>3. g.reg \notin {"PHY_CTRL", "POWER_MGMT", "PORT_CONFIG"} => <<m>> \o speed \in KeepRows(adapter, g)
    BY <1>1, <1>3, RowsCat DEF RowsOn
  <2> QED
    BY <1>4, <1>6, <2>1, <2>2, <2>3 DEF wanted
<1>7. CASE ~IsIch
  <2>1. <<p>> \o speed \in Rows(adapter, g)
    BY <1>2, <1>3, RowsCat DEF RowsOn
  <2>2. wanted => <<p>> \o speed \in SetRows(adapter, g)
    BY <1>2, <1>3, <1>5, <1>7, RowsCat DEF RowsOn
  <2>3. g.reg \notin {"PHY_CTRL", "POWER_MGMT", "PORT_CONFIG"} => <<p>> \o speed \in KeepRows(adapter, g)
    BY <1>2, <1>3, RowsCat DEF RowsOn
  <2> QED
    BY <1>4, <1>7, <2>1, <2>2, <2>3 DEF wanted
<1> QED
  BY <1>6, <1>7

LEMMA D0LpluOffSets ==
    ASSUME TypeOK, NEW c \in Configs[adapter], NEW g \in GoalType, adapter.phy # "ife", adapter.mac # "80003",
           g \in LpluGoals(adapter, c, "D0A_LPLU", "D0_LPLU", FALSE)
    PROVE  D0LpluOff(c) \in SetRows(adapter, g)
<1> DEFINE m == Mac("PHY_CTRL", {"D0A_LPLU"}, {})
           p == Edit("POWER_MGMT", {"D0_LPLU"}, {})
           i == Ignoring(<<p>>)
           speed == SmartSpeed(c)
<1>1. /\ <<m>> \in RowsOn(adapter, g, {"PHY_CTRL"})
      /\ g.reg = "PHY_CTRL" /\ g.bit = "D0A_LPLU" /\ g.to = 0 => <<m>> \in SetRows(adapter, g)
  BY RegisterNames, BitNames, LpluOffStep
<1>2. /\ p \in Steps(adapter) /\ <<p>> \in RowsOn(adapter, g, {"POWER_MGMT"})
      /\ g.reg = "POWER_MGMT" /\ g.bit = "D0_LPLU" /\ g.to = 0 =>
           <<p>> \in SetRows(adapter, g) /\ p \in Setting(adapter, g)
  <2>1. /\ p \in Steps(adapter) /\ <<p>> \in RowsOn(adapter, g, {"POWER_MGMT"})
        /\ g.reg = "POWER_MGMT" /\ g.bit = "D0_LPLU" /\ g.to = 0 => <<p>> \in SetRows(adapter, g)
    BY RegisterNames, BitNames, LpluOffStep
  <2>2. p.do = "edit" /\ p.reg = "POWER_MGMT" /\ p.off = {"D0_LPLU"} /\ p.on = {} /\ p.strict = TRUE
    BY DEF Edit, Step
  <2> HIDE DEF p
  <2> QED
    BY <2>1, <2>2 DEF Setting, Edits
<1>3. /\ speed \in RowsOn(adapter, g, {"PORT_CONFIG"})
      /\ c.smart_speed # "default" /\ g.reg = "PORT_CONFIG" /\ g.bit = "SMART_SPEED" /\ (g.to = 1 <=> c.smart_speed = "on")
           => speed \in SetRows(adapter, g)
  BY SmartSpeedRow DEF RowsOn
<1>5. /\ ~g.ign
      /\ \/ IsIch /\ g.reg = "PHY_CTRL" /\ g.bit = "D0A_LPLU" /\ g.to = 0
         \/ ~IsIch /\ g.reg = "POWER_MGMT" /\ g.bit = "D0_LPLU" /\ g.to = 0
         \/ /\ c.smart_speed # "default"
            /\ g.reg = "PORT_CONFIG" /\ g.bit = "SMART_SPEED" /\ (g.to = 1 <=> c.smart_speed = "on")
  BY LpluOffGoals
<1>6. CASE IsIch
  <2>1. D0LpluOff(c) = <<m>> \o speed
    BY <1>6 DEF D0LpluOff, When, IsIch
  <2> HIDE DEF m, speed
  <2> QED
    BY <1>1, <1>3, <1>5, <1>6, <2>1, RowsCat DEF RowsOn
<1>7. CASE ~IsIch
  <2>1. D0LpluOff(c) = IF c.smart_speed = "default" THEN <<p>> ELSE <<Access>> \o i \o speed
    <3>1. adapter.mac = "82571" /\ adapter.mac \notin {"ich8", "ich9"}
      BY <1>7, Kinds DEF IsIch
    <3> QED
      BY <1>7, <3>1 DEF D0LpluOff, IsIch
  <2>2. /\ i \in RowsOn(adapter, g, {"POWER_MGMT"})
        /\ g.reg = "POWER_MGMT" /\ g.bit = "D0_LPLU" /\ g.to = 0 => i \in SetRows(adapter, g)
    <3> HIDE DEF p
    <3> QED
      BY <1>2, <1>5, IgnoringOne
  <2> HIDE DEF p, i, speed
  <2>3. CASE c.smart_speed = "default"
    BY <1>2, <1>5, <1>7, <2>1, <2>3
  <2>4. CASE c.smart_speed # "default"
    <3>1. <<Access>> \o i \in Rows(adapter, g)
      BY <2>2, AccessRows, RowsCat DEF RowsOn
    <3>2. CASE g.reg = "POWER_MGMT" /\ g.bit = "D0_LPLU" /\ g.to = 0
      <4>1. <<Access>> \o i \in SetRows(adapter, g)
        BY <2>2, <3>2, AccessRows, RowsCat DEF RowsOn
      <4> QED
        BY <1>3, <2>1, <2>4, <3>2, <4>1, RowsCat DEF RowsOn
    <3>3. CASE g.reg = "PORT_CONFIG" /\ speed \in SetRows(adapter, g)
      BY <2>1, <2>4, <3>1, <3>3, RowsCat
    <3> QED
      BY <1>3, <1>5, <1>7, <3>2, <3>3
  <2> QED
    BY <2>3, <2>4
<1> QED
  BY <1>6, <1>7

-----------------------------------------------------------------------------
(* Every call.                                                             *)

LEMMA GoalIsTyped ==
    ASSUME NEW r \in Registers, NEW b \in Bits(r), NEW v
    PROVE  Goal(r, b, v) \in GoalType /\ Watched(Goal(r, b, v)) \in GoalType
<1>1. b \in AllBits
  BY BitsInAll
<1> QED
  BY <1>1 DEF Goal, Watched, GoalType

LEMMA ModeGoalsTyped ==
    ASSUME NEW r \in Registers, NEW auto \in Bits(r), NEW force \in Bits(r), NEW mdix,
           NEW g \in ModeGoals(r, auto, force, mdix)
    PROVE  g \in GoalType
  BY GoalIsTyped DEF ModeGoals, If

LEMMA SetupGoalsTyped ==
    ASSUME TypeOK, NEW a, NEW c \in Configs[adapter], NEW g \in SetupGoals(a, c)
    PROVE  g \in GoalType
<1> DEFINE Ctrl == {"SLU", "FRCSPD", "FRCDPX", "ASDE", "FD", "SPD_100", "SPD_1000"}
           Control == {"AUTO_NEG_EN", "FULL_DUPLEX", "SPEED_100", "SPEED_1000"}
<1>a. \A b \in Ctrl, v \in BOOLEAN : Goal("CTRL", b, v) \in GoalType
  <2>1. Ctrl \subseteq Bits("CTRL") /\ "CTRL" \in Registers
    BY RegisterNames, BitNames
  <2> HIDE DEF Ctrl
  <2> QED
    BY <2>1, GoalIsTyped
<1>b. \A b \in Control, v \in BOOLEAN : Goal("PHY_CONTROL", b, v) \in GoalType
  <2>1. Control \subseteq Bits("PHY_CONTROL") /\ "PHY_CONTROL" \in Registers
    BY RegisterNames, BitNames
  <2> HIDE DEF Control
  <2> QED
    BY <2>1, GoalIsTyped
<1>c. c.autoneg \in BOOLEAN /\ c.full \in BOOLEAN
  BY Kinds
<1>1. CASE g \in {Goal("CTRL", "SLU", TRUE), Goal("CTRL", "FRCSPD", ~c.autoneg), Goal("CTRL", "FRCDPX", ~c.autoneg),
                  Goal("PHY_CONTROL", "AUTO_NEG_EN", c.autoneg)}
  BY <1>1, <1>a, <1>b, <1>c
<1>2. CASE g \in ForcedGoals(a, c)
  <2>1. CASE g \in {Goal("CTRL", "FD", c.full), Goal("CTRL", "SPD_100", c.speed = 100),
                    Goal("CTRL", "ASDE", FALSE), Goal("CTRL", "SPD_1000", FALSE)}
    BY <2>1, <1>a, <1>c
  <2>2. CASE g \in {Goal("PHY_CONTROL", "FULL_DUPLEX", c.full), Goal("PHY_CONTROL", "SPEED_100", c.speed = 100),
                    Goal("PHY_CONTROL", "SPEED_1000", FALSE)}
    BY <2>2, <1>b, <1>c
  <2>3. CASE g \in {Goal("EXT_CTRL", "TX_CLK_25", TRUE), Goal("SPEC_CTRL", "CRS_ON_TX", TRUE),
                    Goal("EXT_CTRL", "TX_CLK_25", c.speed = 100)}
    <3>1. "EXT_CTRL" \in Registers /\ "SPEC_CTRL" \in Registers /\ "TX_CLK_25" \in Bits("EXT_CTRL") /\ "CRS_ON_TX" \in Bits("SPEC_CTRL")
      BY RegisterNames, BitNames
    <3>2. Goal("EXT_CTRL", "TX_CLK_25", TRUE) \in GoalType /\ Goal("EXT_CTRL", "TX_CLK_25", c.speed = 100) \in GoalType
      BY <3>1, GoalIsTyped
    <3>3. Goal("SPEC_CTRL", "CRS_ON_TX", TRUE) \in GoalType
      BY <3>1, GoalIsTyped
    <3> QED
      BY <2>3, <3>2, <3>3
  <2> QED
    BY <1>2, <2>1, <2>2, <2>3 DEF ForcedGoals, If
<1>3. CASE g \in AutonegGoals(a, c)
  <2>1. CASE g \in {Goal("PHY_AUTONEG_ADV", "10/100", c.advertised # "1000"),
                    Goal("PHY_1000T_CTRL", "FD_CAPS", c.advertised # "10/100"),
                    Goal("PHY_1000T_CTRL", "MS_ENABLE", c.ms_type # "auto")}
    BY <2>1, RegisterNames, BitNames, GoalIsTyped
  <2> QED
    BY <1>3, <2>1 DEF AutonegGoals, If
<1>4. CASE g \in CrossoverGoals(a, c)
  <2> DEFINE mdix == IF c.autoneg THEN c.mdix ELSE 1
  <2>1. CASE g \in ModeGoals("PORT_CTRL", "AUTO_MDIX", "FORCE_MDI_MDIX", mdix)
    BY <2>1, RegisterNames, BitNames, ModeGoalsTyped
  <2>2. CASE g \in ModeGoals("MDIX_CONTROL", "AUTO_MDIX", "FORCE_MDIX", mdix)
    BY <2>2, RegisterNames, BitNames, ModeGoalsTyped
  <2>3. CASE g \in XModeGoals(a, mdix)
    BY <2>3, RegisterNames, BitNames, GoalIsTyped DEF XModeGoals
  <2> HIDE DEF mdix
  <2>4. CrossoverGoals(a, c) \subseteq ModeGoals("PORT_CTRL", "AUTO_MDIX", "FORCE_MDI_MDIX", mdix)
              \cup ModeGoals("MDIX_CONTROL", "AUTO_MDIX", "FORCE_MDIX", mdix) \cup XModeGoals(a, mdix)
    BY DEF CrossoverGoals, If, mdix
  <2> QED
    BY <1>4, <2>1, <2>2, <2>3, <2>4
<1>5. CASE g \in {Goal("KMRN_INB", "DIS_PADDING", TRUE), Goal("INBAND", "DIS_PADDING", TRUE)}
  <2>1. "KMRN_INB" \in Registers /\ "INBAND" \in Registers /\ "DIS_PADDING" \in Bits("KMRN_INB") /\ "DIS_PADDING" \in Bits("INBAND")
    BY RegisterNames, BitNames
  <2>2. Goal("KMRN_INB", "DIS_PADDING", TRUE) \in GoalType
    BY <2>1, GoalIsTyped
  <2>3. Goal("INBAND", "DIS_PADDING", TRUE) \in GoalType
    BY <2>1, GoalIsTyped
  <2> QED
    BY <1>5, <2>2, <2>3
<1> QED
  BY <1>1, <1>2, <1>3, <1>4, <1>5 DEF SetupGoals, If

LEMMA LpluGoalsTyped ==
    ASSUME NEW a, NEW c, NEW ich \in Bits("PHY_CTRL"), NEW igp \in Bits("POWER_MGMT"), NEW on \in BOOLEAN,
           NEW g \in LpluGoals(a, c, ich, igp, on)
    PROVE  g \in GoalType
<1>1. Watched(Goal("PHY_CTRL", ich, on)) \in GoalType /\ Watched(Goal("POWER_MGMT", igp, on)) \in GoalType
  BY RegisterNames, GoalIsTyped
<1>2. Watched(Goal("PORT_CONFIG", "SMART_SPEED", ~on /\ c.smart_speed = "on")) \in GoalType
  BY RegisterNames, BitNames, GoalIsTyped
<1>3. Watched(IF a.mac \in {"ich8", "ich9"} THEN Goal("PHY_CTRL", ich, on) ELSE Goal("POWER_MGMT", igp, on)) \in GoalType
  <2>1. CASE a.mac \in {"ich8", "ich9"}
    BY <1>1, <2>1
  <2>2. CASE a.mac \notin {"ich8", "ich9"}
    BY <1>1, <2>2
  <2> QED
    BY <2>1, <2>2
<1> QED
  BY <1>2, <1>3 DEF LpluGoals, If

\* The same row several times over is a row.
LEMMA TimesRow ==
    ASSUME NEW S, NEW q \in Seq(S), Len(q) > 0, NEW n \in Nat
    PROVE  Times(n, q) \in Seq(S)
<1> DEFINE m == Len(q)
           k == n * m
<1>1. m \in Nat \ {0} /\ k \in Nat
  OBVIOUS
<1>2. ASSUME NEW i \in 1 .. k PROVE q[((i - 1) % m) + 1] \in S
  <2> DEFINE r == (i - 1) % m
  <2>1. r \in 0 .. m - 1
    BY <1>1
  <2> HIDE DEF r
  <2>2. r + 1 \in 1 .. Len(q)
    BY <1>1, <2>1
  <2>3. q[r + 1] \in S
    BY <2>2
  <2> QED
    BY <2>3 DEF r
<1> DEFINE f == [i \in 1 .. k |-> q[((i - 1) % m) + 1]]
<1>3. f \in [1 .. k -> S]
  BY <1>2
<1>4. Times(n, q) = f
  BY DEF Times
<1> HIDE DEF f, k, m
<1> QED
  BY <1>1, <1>3, <1>4

LEMMA DefaultBits ==
    /\ \A r \in DOMAIN PhyBits : r \in Registers /\ PhyDefault[r] \subseteq Bits(r)
    /\ \A r \in DOMAIN MacBits : r \in Registers /\ MacDefault[r] \subseteq Bits(r)
    /\ Registers = DOMAIN PhyBits \cup DOMAIN MacBits
    /\ MacDefault["KMRN_DIAG"] = {} /\ "KMRN_DIAG" \in DOMAIN MacBits
<1>1. Registers = DOMAIN PhyBits \cup DOMAIN MacBits
  BY DEF Registers
<1>2. \A r \in DOMAIN PhyBits : PhyDefault[r] \subseteq Bits(r)
  <2>1. "PHY_CONTROL" \in DOMAIN PhyBits => PhyDefault["PHY_CONTROL"] \subseteq Bits("PHY_CONTROL")
    BY BitNames DEF PhyDefault
  <2>2. \A r \in DOMAIN PhyBits : r # "PHY_CONTROL" => PhyDefault[r] = {}
    BY DEF PhyDefault
  <2> QED
    BY <2>1, <2>2
<1>3. \A r \in DOMAIN MacBits : MacDefault[r] \subseteq Bits(r)
  <2>1. "CTRL" \in DOMAIN MacBits => MacDefault["CTRL"] \subseteq Bits("CTRL")
    BY BitNames DEF MacDefault
  <2>2. \A r \in DOMAIN MacBits : r # "CTRL" => MacDefault[r] = {}
    BY DEF MacDefault
  <2> QED
    BY <2>1, <2>2
<1>4. "KMRN_DIAG" \in DOMAIN MacBits
  BY DEF MacBits
<1>5. MacDefault["KMRN_DIAG"] = {}
  BY <1>4 DEF MacDefault
<1> QED
  BY <1>1, <1>2, <1>3, <1>4, <1>5

\* A row that keeps the loopback off.
Quiet == {q \in Seq(Steps(adapter)) : Keeps(adapter, q, LoopbackOff)}

\* One none of whose steps has to do with it.
LEMMA OffRow == Seq(Keeping(adapter, LoopbackOff)) \subseteq Quiet
<1> SUFFICES ASSUME NEW q \in Seq(Keeping(adapter, LoopbackOff)) PROVE q \in Quiet
  OBVIOUS
<1>1. \A i \in 1 .. Len(q) : q[i] \in Keeping(adapter, LoopbackOff)
  BY ElementOfSeq
<1>2. q \in Seq(Steps(adapter))
  <2>1. Keeping(adapter, LoopbackOff) \subseteq Steps(adapter)
    BY DEF Keeping
  <2> DEFINE K == Keeping(adapter, LoopbackOff)
             S == Steps(adapter)
  <2> HIDE DEF K, S
  <2>2. K \subseteq S => Seq(K) \subseteq Seq(S)
    OBVIOUS
  <2> QED
    BY <2>1, <2>2 DEF K, S
<1> QED
  BY <1>1, <1>2 DEF Quiet, Keeps, KeepsFrom

LEMMA OffStep ==
    \A s \in Steps(adapter) : s.reg # "KMRN_DIAG" => s \in Keeping(adapter, LoopbackOff)
<1>1. "KMRN_DIAG" \notin DOMAIN PhyBits /\ "KMRN_DIAG" \in DOMAIN MacBits /\ "KMRN_DIAG" # "EXT_CTRL"
  BY RegisterNames, DefaultBits
<1>2. "NELPBK" \notin MacDefault["KMRN_DIAG"]
  BY DefaultBits
<1> QED
  BY <1>1, <1>2, LoopbackIs DEF Keeping

LEMMA QuietCat ==
    /\ <<>> \in Quiet
    /\ \A p, q \in Quiet : p \o q \in Quiet
<1>1. <<>> \in Quiet
  BY NoSteps DEF Quiet
<1>2. ASSUME NEW p \in Quiet, NEW q \in Quiet PROVE p \o q \in Quiet
  BY KeepsCat, ConcatProperties DEF Quiet
<1> QED
  BY <1>1, <1>2

LEMMA QuietOne ==
    ASSUME NEW s \in Steps(adapter), s.reg # "KMRN_DIAG"
    PROVE  <<s>> \in Quiet /\ Ignoring(<<s>>) \in Quiet
<1> DEFINE p == <<s>>
<1>1. s \in Keeping(adapter, LoopbackOff)
  BY OffStep
<1>2. p \in Seq(Steps(adapter)) /\ Len(p) = 1 /\ p[1] = s /\ p \in Seq(Keeping(adapter, LoopbackOff))
  BY <1>1
<1> HIDE DEF p
<1>3. \A i \in 1 .. Len(p) : p[i] \in Keeping(adapter, LoopbackOff)
  BY <1>1, <1>2
<1>4. Ignoring(p) \in Quiet
  BY <1>2, <1>3, IgnoringRow DEF Quiet
<1>5. p \in Quiet
  BY <1>2, OffRow
<1> QED
  BY <1>4, <1>5 DEF p

\* The steps of the calls without a goal.
LEMMA OtherSteps ==
    /\ \A d \in Resets \cup Ends \cup {"fail"} : Do(d) \in Steps(adapter) /\ Do(d).reg # "KMRN_DIAG"
    /\ Access \in Steps(adapter) /\ Access.reg # "KMRN_DIAG"
    /\ \A on \in SUBSET Bits("PHY_CTRL") :
          Mac("PHY_CTRL", {}, on) \in Steps(adapter) /\ Mac("PHY_CTRL", {}, on).reg # "KMRN_DIAG"
    /\ \A r \in Registers \ {"KMRN_DIAG"}, word \in {"zero", "junk"} : \A off, on \in SUBSET Bits(r) :
          EditUnread(r, off, on, word) \in Steps(adapter) /\ EditUnread(r, off, on, word).reg # "KMRN_DIAG"
<1>1. \A d \in Resets \cup Ends \cup {"fail"} : Do(d) \in Steps(adapter) /\ Do(d).reg = "none"
  <2>1. \A d : Do(d).reg = "none"
    BY DEF Do, Step
  <2> QED
    BY <2>1, DoIs
<1>2. Access \in Steps(adapter) /\ Access.reg = "none"
  <2>1. Access.reg = "none"
    BY DEF Access, Do, Step
  <2> QED
    BY <2>1, LoopbackIs, AccessRows
<1>3. ASSUME NEW on \in SUBSET Bits("PHY_CTRL")
      PROVE  Mac("PHY_CTRL", {}, on) \in Steps(adapter) /\ Mac("PHY_CTRL", {}, on).reg # "KMRN_DIAG"
  <2>1. Mac("PHY_CTRL", {}, on).reg = "PHY_CTRL"
    BY DEF Mac, Step
  <2>2. "PHY_CTRL" \in Registers \ {"KMRN_DIAG"} /\ {} \in SUBSET Bits("PHY_CTRL")
    BY RegisterNames
  <2>3. Mac("PHY_CTRL", {}, on) \in Steps(adapter)
    BY <2>2, LoopbackIs, ChangeRow
  <2> QED
    BY <2>1, <2>3
<1>4. ASSUME NEW r \in Registers \ {"KMRN_DIAG"}, NEW word \in {"zero", "junk"},
             NEW off \in SUBSET Bits(r), NEW on \in SUBSET Bits(r)
      PROVE  EditUnread(r, off, on, word) \in Steps(adapter) /\ EditUnread(r, off, on, word).reg # "KMRN_DIAG"
  <2>1. EditUnread(r, off, on, word).reg = r
    BY DEF EditUnread, Step
  <2> QED
    BY <2>1, LoopbackIs, UnreadRow
<1>5. "none" # "KMRN_DIAG"
  OBVIOUS
<1> QED
  BY <1>1, <1>2, <1>3, <1>4, <1>5

\* The calls without a goal are rows of steps too, and keep the loopback off.
LEMMA OtherRows ==
    /\ \A off, on \in SUBSET Bits("PHY_CONTROL") : Power(off, on) \in Quiet
    /\ HwReset \in Quiet /\ PowerDown \in Quiet
    /\ DisableGigWol \in Quiet /\ <<Do("restart")>> \in Quiet
    /\ LockLoss \in Quiet /\ PhyDown \in Quiet
<1>1. ASSUME NEW off \in SUBSET Bits("PHY_CONTROL"), NEW on \in SUBSET Bits("PHY_CONTROL")
      PROVE  Power(off, on) \in Quiet
  <2> DEFINE s == EditUnread("PHY_CONTROL", off, on, "zero")
  <2>1. s \in Steps(adapter) /\ s.reg # "KMRN_DIAG"
    BY RegisterNames, OtherSteps
  <2>2. Power(off, on) = Ignoring(<<s>>)
    BY DEF Power
  <2> HIDE DEF s
  <2> QED
    BY <2>1, <2>2, QuietOne
<1>2. HwReset \in Seq(Keeping(adapter, LoopbackOff)) /\ HwReset \in Seq(Steps(adapter))
  <2>1. LoopbackOff.reg \notin DOMAIN PhyBits /\ LoopbackOff \in GoalType
    BY LoopbackIs, RegisterNames
  <2> QED
    BY <2>1, HwResetRow DEF Rows
<1>3. PowerDown \in Quiet
  <2> DEFINE e == {}
             on == {"POWER_DOWN"}
  <2>1. e \in SUBSET Bits("PHY_CONTROL") /\ on \in SUBSET Bits("PHY_CONTROL")
    BY BitNames
  <2>2. PowerDown = <<Do("allowed")>> \o Power(e, on)
    BY DEF PowerDown
  <2> HIDE DEF e, on
  <2>3. <<Do("allowed")>> \in Quiet
    BY OtherSteps, QuietOne DEF Ends
  <2> QED
    BY <1>1, <2>1, <2>2, <2>3, QuietCat
<1>4. DisableGigWol \in Quiet /\ <<GigabitOff>> \in Quiet
  <2> DEFINE both == {"D0A_LPLU", "GBE_DISABLE"}
             one == {"GBE_DISABLE"}
  <2>1. both \in SUBSET Bits("PHY_CTRL") /\ one \in SUBSET Bits("PHY_CTRL")
    BY BitNames
  <2>2. DisableGigWol = <<Mac("PHY_CTRL", {}, both)>> /\ GigabitOff = Mac("PHY_CTRL", {}, one)
    BY DEF DisableGigWol, GigabitOff
  <2> HIDE DEF both, one
  <2> QED
    BY <2>1, <2>2, OtherSteps, QuietOne
<1>5. \A d \in Resets \cup Ends \cup {"fail"} : <<Do(d)>> \in Quiet
  BY OtherSteps, QuietOne
<1>6. Ignoring(GigDownshift) \in Quiet
  BY LoopbackIs, GigDownshiftRow DEF KeepRows, Rows, Quiet
<1>7. LockLoss \in Quiet
  <2> DEFINE K == Keeping(adapter, LoopbackOff)
             q == Ignoring(HwReset)
             l == Do("locked")
             p == <<Access, l>>
             once == p \o q
             d == Ignoring(GigDownshift)
  <2>1. q \in Seq(K)
    <3>1. \A i \in 1 .. Len(HwReset) : HwReset[i] \in K
      BY <1>2, ElementOfSeq
    <3>2. /\ q \in Seq(Steps(adapter)) /\ Len(q) = Len(HwReset) /\ \A i \in 1 .. Len(HwReset) : q[i] \in K
      BY <1>2, <3>1, IgnoringRow
    <3> HIDE DEF K, q
    <3>3. q = [i \in 1 .. Len(q) |-> q[i]] /\ Len(q) \in Nat
      BY <3>2
    <3>4. q \in [1 .. Len(q) -> K]
      BY <3>2, <3>3
    <3> QED
      BY <3>3, <3>4, SeqDef
  <2>2. Access \in K /\ l \in K
    BY OtherSteps, OffStep DEF Ends
  <2> HIDE DEF K, q, l
  <2>3. p \in Seq(K) /\ Len(p) = 2
    BY <2>2
  <2> HIDE DEF p
  <2>4. once \in Seq(K) /\ Len(once) > 0
    <3>1. p \o q \in Seq(K) /\ Len(p \o q) = Len(p) + Len(q) /\ Len(q) \in Nat
      BY <2>1, <2>3, ConcatProperties, LenProperties
    <3> QED
      BY <2>3, <3>1
  <2>5. LockLoss = <<Do("linked")>> \o Times(LockTries, once) \o <<GigabitOff>> \o d \o <<Do("fail")>>
    BY DEF LockLoss, once, p, q, l
  <2> HIDE DEF once
  <2>6. Times(LockTries, once) \in Quiet
    <3>1. Times(LockTries, once) \in Seq(K)
      BY <2>4, TriesAssumption, TimesRow
    <3> QED
      BY <3>1, OffRow DEF K
  <2>7. <<Do("linked")>> \in Quiet /\ <<Do("fail")>> \in Quiet
    BY <1>5 DEF Ends
  <2> HIDE DEF d
  <2> QED
    BY <1>4, <1>6, <2>5, <2>6, <2>7, QuietCat DEF d
<1>8. PhyDown \in Quiet
  <2> DEFINE d == Ignoring(GigDownshift)
             v == EditUnread("VR_CTRL", {"SHUTDOWN"}, {"SHUTDOWN"}, "junk")
             i == Ignoring(<<v>>)
             try == <<GigabitOff>> \o d \o i
             down == Do("down")
             rst == Do("phy_rst")
  <2>1. PhyDown = try \o <<down, rst>> \o try \/ PhyDown = <<>>
    BY DEF PhyDown, When
  <2>2. i \in Quiet
    <3>1. {"SHUTDOWN"} \in SUBSET Bits("VR_CTRL") /\ "VR_CTRL" \in Registers \ {"KMRN_DIAG"}
      BY RegisterNames, BitNames
    <3>2. v \in Steps(adapter) /\ v.reg # "KMRN_DIAG"
      BY <3>1, OtherSteps
    <3> HIDE DEF v
    <3> QED
      BY <3>2, QuietOne
  <2>3. <<down>> \in Quiet /\ <<rst>> \in Quiet
    BY <1>5 DEF Ends, Resets
  <2> HIDE DEF d, i, down, rst
  <2>4. try \in Quiet
    BY <1>4, <1>6, <2>2, QuietCat DEF d
  <2>5. <<down, rst>> = <<down>> \o <<rst>>
    BY Tuples
  <2> HIDE DEF try
  <2> QED
    BY <2>1, <2>3, <2>4, <2>5, QuietCat
<1>9. HwReset \in Quiet /\ <<Do("restart")>> \in Quiet
  BY <1>2, <1>5, OffRow DEF Ends
<1> QED
  BY <1>1, <1>3, <1>4, <1>7, <1>8, <1>9

LEMMA OtherRoutines ==
    ASSUME NEW c, NEW name \in {"power_up", "power_down", "lock_loss", "phy_down", "disable_gig_wol", "phy_reset", "reset_hw"}
    PROVE  Routine(name, c) \in Quiet
<1>1. {"POWER_DOWN"} \in SUBSET Bits("PHY_CONTROL") /\ {} \in SUBSET Bits("PHY_CONTROL")
  BY BitNames
<1>2. Power({"POWER_DOWN"}, {}) \in Quiet
  BY <1>1, OtherRows
<1>3. Routine(name, c) \in {Power({"POWER_DOWN"}, {}), PowerDown, LockLoss, PhyDown, DisableGigWol, HwReset, <<Do("restart")>>}
  BY DEF Routine
<1> QED
  BY <1>2, <1>3, OtherRows

\* Every call is a row of the adapter's steps, and reaches each of its goals.
LEMMA RoutineReaches ==
    ASSUME TypeOK, NEW name \in Calls, NEW c \in Configs[adapter]
    PROVE  /\ Routine(name, c) \in Seq(Steps(adapter))
           /\ \A g \in Goals(adapter, name, c) : g \in GoalType /\ Reaches(adapter, Routine(name, c), g)
<1> DEFINE Reached(q, G) == q \in Seq(Steps(adapter)) /\ \A g \in G : g \in GoalType /\ Reaches(adapter, q, g)
<1>0. GoalType # {}
  BY LoopbackIs
<1>1. ASSUME NEW q, NEW G \in SUBSET GoalType,
             \A g \in GoalType : q \in Rows(adapter, g) /\ (g \in G => q \in SetRows(adapter, g))
      PROVE  Reached(q, G)
  BY <1>0, <1>1 DEF Rows, SetRows
<1>2. CASE name = "setup"
  <2>1. SetupGoals(adapter, c) \in SUBSET GoalType
    BY SetupGoalsTyped
  <2>2. Reached(Setup(c), SetupGoals(adapter, c))
    BY <1>1, <2>1, SetupRow
  <2> QED
    BY <1>2, <2>2 DEF Routine, Goals
<1>3. CASE name = "d0_on"
  <2> DEFINE G == LpluGoals(adapter, c, "D0A_LPLU", "D0_LPLU", TRUE)
  <2>1. G \in SUBSET GoalType
    BY BitNames, LpluGoalsTyped
  <2>2. adapter.mac # "80003"
    BY <1>3, Kinds DEF Calls, IsIch, Is82566
  <2>3. Reached(D0LpluOn(c), IF adapter.phy # "ife" THEN G ELSE {})
    <3> HIDE DEF G
    <3>1. (IF adapter.phy # "ife" THEN G ELSE {}) \in SUBSET GoalType
      BY <2>1
    <3> QED
      BY <1>1, <2>2, <3>1, D0LpluOnRow DEF G
  <2>5. Goals(adapter, name, c) = (IF adapter.phy # "ife" THEN G ELSE {}) /\ Routine(name, c) = D0LpluOn(c)
    BY <1>3 DEF Goals, If, Routine
  <2> HIDE DEF G
  <2> QED
    BY <2>3, <2>5
<1>4. CASE name = "d0_off"
  <2> DEFINE G == IF adapter.phy # "ife" THEN LpluGoals(adapter, c, "D0A_LPLU", "D0_LPLU", FALSE) ELSE {}
  <2>1. G \in SUBSET GoalType
    BY BitNames, LpluGoalsTyped
  <2>2. adapter.mac # "80003"
    BY <1>4, Kinds DEF Calls, IsIch, Is82566
  <2>3. \A g \in GoalType : D0LpluOff(c) \in Rows(adapter, g) /\ (g \in G => D0LpluOff(c) \in SetRows(adapter, g))
    BY <2>2, D0LpluOffRow, D0LpluOffSets
  <2>4. Reached(D0LpluOff(c), G)
    BY <1>1, <2>1, <2>3
  <2>5. Goals(adapter, name, c) = G /\ Routine(name, c) = D0LpluOff(c)
    BY <1>4 DEF Goals, If, Routine
  <2> QED
    BY <2>4, <2>5
<1>5. CASE name = "d3_on"
  <2> DEFINE G == IF c.advertised # "1000" THEN LpluGoals(adapter, c, "NOND0A_LPLU", "D3_LPLU", TRUE) ELSE {}
  <2>1. G \in SUBSET GoalType
    BY BitNames, LpluGoalsTyped
  <2>3. \A g \in GoalType : D3LpluOn(c) \in Rows(adapter, g) /\ (g \in G => D3LpluOn(c) \in SetRows(adapter, g))
    BY D3LpluOnRow
  <2>4. Reached(D3LpluOn(c), G)
    BY <1>1, <2>1, <2>3
  <2>5. Goals(adapter, name, c) = G /\ Routine(name, c) = D3LpluOn(c)
    BY <1>5 DEF Goals, If, Routine
  <2> QED
    BY <2>4, <2>5
<1>6. CASE name = "d3_off"
  <2> DEFINE G == LpluGoals(adapter, c, "NOND0A_LPLU", "D3_LPLU", FALSE)
  <2>1. G \in SUBSET GoalType
    BY BitNames, LpluGoalsTyped
  <2>3. \A g \in GoalType : D3LpluOff(c) \in Rows(adapter, g) /\ (g \in G => D3LpluOff(c) \in SetRows(adapter, g))
    BY D3LpluOffRow
  <2>4. Reached(D3LpluOff(c), G)
    BY <1>1, <2>1, <2>3
  <2>5. Goals(adapter, name, c) = G /\ Routine(name, c) = D3LpluOff(c)
    BY <1>6 DEF Goals, Routine
  <2> QED
    BY <2>4, <2>5
<1>7. CASE name \in {"kmrn_1000", "kmrn_full", "kmrn_half"}
  <2> DEFINE gigabit == name = "kmrn_1000"
             half == name = "kmrn_half"
             G == KumeranGoals(name)
             q == Kumeran(gigabit, half)
  <2>1. G = {Goal("KMRN_HD", "1000", gigabit), Goal("TIPG", "IPGT_1000", gigabit), Goal("KMRN_MODE", "PASS_FALSE_CARRIER", half)}
    BY DEF KumeranGoals
  <2>2. Goals(adapter, name, c) = G /\ Routine(name, c) = q
    <3>1. CASE name = "kmrn_1000"
      BY <3>1 DEF Goals, Routine
    <3>2. CASE name = "kmrn_full"
      BY <3>2 DEF Goals, Routine
    <3>3. CASE name = "kmrn_half"
      BY <3>3 DEF Goals, Routine
    <3> QED
      BY <1>7, <3>1, <3>2, <3>3
  <2>3. gigabit \in BOOLEAN /\ half \in BOOLEAN
    OBVIOUS
  <2> HIDE DEF gigabit, half
  <2>4. G \in SUBSET GoalType
    <3>1. /\ "KMRN_HD" \in Registers /\ "TIPG" \in Registers /\ "KMRN_MODE" \in Registers
          /\ "1000" \in Bits("KMRN_HD") /\ "IPGT_1000" \in Bits("TIPG") /\ "PASS_FALSE_CARRIER" \in Bits("KMRN_MODE")
      BY RegisterNames, BitNames
    <3>2. Goal("KMRN_HD", "1000", gigabit) \in GoalType
      BY <3>1, GoalIsTyped
    <3>3. Goal("TIPG", "IPGT_1000", gigabit) \in GoalType
      BY <3>1, GoalIsTyped
    <3>4. Goal("KMRN_MODE", "PASS_FALSE_CARRIER", half) \in GoalType
      BY <3>1, GoalIsTyped
    <3> QED
      BY <2>1, <3>2, <3>3, <3>4
  <2>5. \A g \in GoalType : q \in Rows(adapter, g) /\ (g \in G => q \in SetRows(adapter, g))
    BY <2>1, <2>3, KumeranRow
  <2> HIDE DEF G, q
  <2>6. Reached(q, G)
    BY <1>1, <2>4, <2>5
  <2> QED
    BY <2>2, <2>6
<1>8. CASE name \in {"power_up", "power_down", "lock_loss", "phy_down", "disable_gig_wol", "phy_reset", "reset_hw"}
  <2>1. Goals(adapter, name, c) = {}
    BY <1>8 DEF Goals
  <2> QED
    BY <1>8, <2>1, OtherRoutines DEF Quiet
<1> QED
  <2>1. name \in {"setup", "power_up", "power_down", "phy_reset", "reset_hw", "d0_on", "d0_off", "d3_on", "d3_off",
                  "kmrn_1000", "kmrn_full", "kmrn_half", "lock_loss", "phy_down", "disable_gig_wol"}
    BY DEF Calls
  <2> QED
    BY <1>2, <1>3, <1>4, <1>5, <1>6, <1>7, <1>8, <2>1

\* And keeps the loopback off.
LEMMA SetupQuiet ==
    ASSUME TypeOK, NEW c \in Configs[adapter]
    PROVE  Setup(c) \in Quiet
<1> DEFINE g == LoopbackOff
           K == KeepRows(adapter, g)
           first == <<SetLinkUp>>
           row == IF c.autoneg THEN Autoneg(c) ELSE ForceSpeedDuplex(c)
<1>1. /\ g \in GoalType /\ g.reg = "KMRN_DIAG" /\ "KMRN_DIAG" \notin DOMAIN PhyBits
      /\ "KMRN_DIAG" \notin {"CTRL", "PHY_CTRL", "KMRN_INB"}
      /\ "KMRN_DIAG" \notin {"PHY_AUTONEG_ADV", "PHY_1000T_CTRL", "PHY_CONTROL"}
      /\ "KMRN_DIAG" \notin {"CTRL", "PHY_CONTROL", "EXT_CTRL", "SPEC_CTRL", "PORT_CTRL", "MDIX_CONTROL"}
  BY LoopbackIs, RegisterNames
<1> HIDE DEF g
<1>2. first \in K
  BY <1>1, SetLinkUpRow DEF RowsOn
<1>3. KumeranTimeouts \in K
  BY <1>1, KumeranTimeoutsRow
<1>4. SetupPhy(c) \in K
  BY <1>1, SetupPhyRow DEF RowsOn
<1>5. row \in K
  <2>1. Autoneg(c) \in K
    BY <1>1, AutonegRow DEF RowsOn
  <2>2. ForceSpeedDuplex(c) \in K
    BY <1>1, ForceRow DEF RowsOn
  <2> HIDE DEF K
  <2> QED
    BY <2>1, <2>2
<1>6. LinkUp(c) \in K
  BY <1>1, <1>5, LinkUpRow
<1>7. Setup(c) = first \o KumeranTimeouts \o SetupPhy(c) \o LinkUp(c)
  BY DEF Setup
<1> HIDE DEF first, row
<1>8. first \o KumeranTimeouts \o SetupPhy(c) \o LinkUp(c) \in K
  BY <1>2, <1>3, <1>4, <1>6, RowsCat
<1> QED
  BY <1>7, <1>8 DEF g, KeepRows, Rows, Quiet

LEMMA RoutineQuiet ==
    ASSUME TypeOK, NEW name \in Calls, NEW c \in Configs[adapter]
    PROVE  Routine(name, c) \in Quiet
<1> DEFINE q == Routine(name, c)
<1>0. q \in Seq(Steps(adapter))
  BY RoutineReaches
<1>1. CASE ~Is82566
  <2>1. \A s \in Steps(adapter) : s.reg # "KMRN_DIAG"
    BY <1>1 DEF Steps, Is82566
  <2>2. \A i \in 1 .. Len(q) : q[i] \in Keeping(adapter, LoopbackOff)
    <3> HIDE DEF q
    <3>1. \A i \in 1 .. Len(q) : q[i] \in Steps(adapter)
      BY <1>0, ElementOfSeq
    <3> QED
      BY <2>1, <3>1, OffStep
  <2> HIDE DEF q
  <2> QED
    BY <1>0, <2>2 DEF q, Quiet, Keeps, KeepsFrom
<1>2. CASE Is82566
  <2>1. name \in {"setup", "d0_on", "d0_off", "d3_on", "d3_off", "power_up", "power_down", "lock_loss", "phy_down",
                  "disable_gig_wol", "phy_reset", "reset_hw"}
    BY <1>2 DEF Calls, Is82566, IsIch
  <2>2. CASE name \in {"power_up", "power_down", "lock_loss", "phy_down", "disable_gig_wol", "phy_reset", "reset_hw"}
    BY <2>2, OtherRoutines
  <2>3. CASE name = "setup"
    BY <2>3, SetupQuiet DEF Routine
  <2> DEFINE g == LoopbackOff
  <2>4. /\ g \in GoalType /\ g.reg = "KMRN_DIAG"
        /\ g.reg \notin {"PHY_CTRL", "POWER_MGMT", "PORT_CONFIG"}
    BY LoopbackIs
  <2>5. CASE name = "d0_on"
    <3>1. D0LpluOn(c) \in KeepRows(adapter, LoopbackOff)
      BY LoopbackIs, D0LpluOnRow
    <3> QED
      BY <2>5, <3>1 DEF Routine, KeepRows, Rows, Quiet
  <2>6. CASE name = "d3_on"
    <3>1. D3LpluOn(c) \in KeepRows(adapter, LoopbackOff)
      BY LoopbackIs, D3LpluOnRow
    <3> QED
      BY <2>6, <3>1 DEF Routine, KeepRows, Rows, Quiet
  <2>7. CASE name = "d0_off"
    <3>1. D0LpluOff(c) \in KeepRows(adapter, LoopbackOff)
      BY <2>4, D0LpluOffRow
    <3> QED
      BY <2>7, <3>1 DEF Routine, KeepRows, Rows, Quiet
  <2>8. CASE name = "d3_off"
    <3>1. D3LpluOff(c) \in KeepRows(adapter, LoopbackOff)
      BY <2>4, D3LpluOffRow
    <3> QED
      BY <2>8, <3>1 DEF Routine, KeepRows, Rows, Quiet
  <2> QED
    BY <2>1, <2>2, <2>3, <2>5, <2>6, <2>7, <2>8
<1> QED
  BY <1>1, <1>2
-----------------------------------------------------------------------------
(* The invariant.                                                          *)

\* What registers hold, all of them.
Typed(f) == f \in [Registers -> SUBSET AllBits] /\ \A r \in Registers : f[r] \subseteq Bits(r)

LEMMA TypedIf ==
    ASSUME NEW f, f = [r \in Registers |-> f[r]], \A r \in Registers : f[r] \subseteq Bits(r)
    PROVE  Typed(f)
<1>1. \A r \in Registers : f[r] \in SUBSET AllBits
  BY BitsInAll
<1> QED
  BY <1>1 DEF Typed

\* A step leaves bits in a register that it has.
LEMMA TypedStep ==
    ASSUME StepsOK, Typed(reg), DoStep
    PROVE  Typed(reg')
<1> USE DEF Typed
<1>1. next \in Steps(adapter)
  BY GoesOn
<1>2. next.do \in Edits \cup {"mac"} => next.reg \in Registers /\ next.on \subseteq Bits(next.reg)
  BY <1>1 DEF Steps
<1>3. ASSUME NEW bits, bits \subseteq Bits(next.reg), next.reg \in Registers, RegIs(bits)
      PROVE  Typed(reg')
  <2>1. reg' = [reg EXCEPT ![next.reg] = bits] /\ bits \in SUBSET AllBits
    BY <1>3, BitsInAll DEF RegIs
  <2> QED
    BY <1>3, <2>1
<1>4. ASSUME next.do \in Edits \cup {"mac"}, NEW bits \in SUBSET Bits(next.reg)
      PROVE  Changed(bits) \subseteq Bits(next.reg) /\ next.reg \in Registers
  BY <1>2, <1>4 DEF Changed
<1>5. CASE MacWrite
  <2>1. next.do \in Edits \cup {"mac"} /\ RegIs(Changed(reg[next.reg]))
    BY <1>5 DEF MacWrite, Next_is
  <2> QED
    BY <1>2, <1>3, <1>4, <2>1
<1>6. CASE PhyWrite
  <2>1. next.do \in Edits
    BY <1>6 DEF PhyWrite, Next_is, Edits
  <2>2. \A r \in Registers : reg'[r] = reg[r] \/ reg'[r] = reg[r] \ {"TX_CLK_25"} \/ (r = next.reg /\ reg'[r] = Changed(reg[r]))
    BY <1>2, <1>6, <2>1 DEF PhyWrite
  <2>3. reg' \in [Registers -> SUBSET AllBits]
    <3>1. PICK x : reg' = [reg EXCEPT ![next.reg] = Changed(@), !["EXT_CTRL"] = x]
      BY <1>6 DEF PhyWrite
    <3>2. DOMAIN reg' = Registers /\ reg' = [r \in Registers |-> reg'[r]]
      BY <3>1
    <3>3. ASSUME NEW r \in Registers PROVE reg'[r] \in SUBSET AllBits
      BY <1>2, <1>4, <2>1, <2>2, BitsInAll
    <3> QED
      BY <3>2, <3>3
  <2>4. ASSUME NEW r \in Registers PROVE reg'[r] \subseteq Bits(r)
    BY <1>2, <1>4, <2>1, <2>2
  <2> QED
    BY <2>3, <2>4
<1>7. CASE PhyWriteFails
  <2>1. next.do \in Edits \cup {"mac"} /\ (reg' = reg \/ RegIs(Changed(reg[next.reg])))
    BY <1>7 DEF PhyWriteFails, Next_is, Edits
  <2> QED
    BY <1>2, <1>3, <1>4, <2>1
<1>8. CASE ReadIgnored
  <2>1. PICK word \in SUBSET Bits(next.reg) : RegIs(Changed(word))
    BY <1>8 DEF ReadIgnored
  <2>2. next.do \in Edits \cup {"mac"}
    BY <1>8 DEF ReadIgnored, Next_is, Edits
  <2> QED
    BY <1>3, <1>4, <2>1, <2>2
<1>9. CASE AccessDone \/ AccessFails \/ Test \/ GiveUp
  <2>1. reg' = reg
    BY <1>9 DEF AccessDone, AccessFails, Test, GiveUp
  <2> QED
    BY <2>1
<1>10. CASE HwResetDone \/ HwResetFails
  <2>1. reg' = reg \/ reg' = PhyReset
    BY <1>10 DEF HwResetDone, HwResetFails
  <2>2. Typed(PhyReset)
    <3>1. PhyReset = [r \in Registers |-> IF r \in DOMAIN PhyBits THEN PhyDefault[r] ELSE reg[r]]
      BY DEF PhyReset, AfterReset
    <3>2. \A r \in Registers : PhyReset[r] \subseteq Bits(r)
      BY <3>1, DefaultBits
    <3> QED
      BY <3>1, <3>2, TypedIf
  <2> QED
    BY <2>1, <2>2
<1>11. CASE Restart
  <2>1. PICK both \in BOOLEAN :
            reg' = [r \in Registers |->
                    IF r \in DOMAIN MacBits THEN MacDefault[r] ELSE IF both THEN PhyDefault[r] ELSE reg[r]]
    BY <1>11 DEF Restart
  <2>2. \A r \in Registers : reg'[r] \subseteq Bits(r)
    BY <2>1, DefaultBits
  <2>3. reg' = [r \in Registers |-> reg'[r]]
    BY <2>1
  <2> HIDE DEF Typed
  <2> QED
    BY <2>2, <2>3, TypedIf
<1> QED
  BY <1>5, <1>6, <1>7, <1>8, <1>9, <1>10, <1>11 DEF DoStep

\* A step leaves the loopback off, or is directly followed by the one that takes it back, or has failed.
LEMMA LoopbackStep ==
    ASSUME StepsOK, DoStep, LoopbackInv
    PROVE  LoopbackInv'
<1> DEFINE g == LoopbackOff
           On == "NELPBK" \in reg["KMRN_DIAG"]
<1>0. /\ g \in GoalType /\ g.reg = "KMRN_DIAG" /\ g.bit = "NELPBK" /\ g.to = 0
      /\ "KMRN_DIAG" \in Registers /\ "KMRN_DIAG" \notin DOMAIN PhyBits
  BY LoopbackIs, RegisterNames
<1>1. /\ todo # <<>> /\ next \in Steps(adapter) /\ next = todo[1] /\ todo \in Seq(Steps(adapter))
      /\ next.skip \in Nat /\ adapter' = adapter
  BY GoesOn DEF StepsOK, Steps
<1>2. Keeps(adapter, todo', g)
  <2>1. todo' = <<>> \/ \E n \in Nat : todo' = SubSeq(todo, n + 2, Len(todo))
    BY <1>1, GoesOn
  <2>2. Keeps(adapter, todo, g)
    BY DEF LoopbackInv
  <2> HIDE DEF g
  <2> QED
    BY <1>1, <2>1, <2>2, NoSteps, KeepsRest
<1>3. SUFFICES ASSUME On' PROVE diag_failed' \/ (todo' # <<>> /\ todo'[1] \in Setting(adapter, g))
  BY <1>1, <1>2 DEF LoopbackInv
<1>4. On => diag_failed \/ todo[1] \in Setting(adapter, g)
  BY DEF LoopbackInv
<1>5. CASE next.reg # "KMRN_DIAG" /\ next.do # "restart"
  <2>1. reg'["KMRN_DIAG"] = reg["KMRN_DIAG"]
    BY <1>0, <1>5, Written
  <2>2. diag_failed' = diag_failed
    BY <1>5 DEF DoStep, MacWrite, PhyWrite, PhyWriteFails, ReadIgnored, AccessDone, AccessFails, Test, GiveUp,
                HwResetDone, HwResetFails, Restart, Accessed
  <2>3. next \notin Setting(adapter, g)
    BY <1>0, <1>5 DEF Setting
  <2> QED
    BY <1>1, <1>3, <1>4, <2>1, <2>2, <2>3
<1>6. CASE next.do = "restart"
  <2>1. Restart
    BY <1>6 DEF DoStep, MacWrite, PhyWrite, PhyWriteFails, ReadIgnored, AccessDone, AccessFails, Test, GiveUp,
                HwResetDone, HwResetFails, Next_is
  <2>2. reg'["KMRN_DIAG"] = {}
    BY <1>0, <2>1, DefaultBits DEF Restart
  <2> QED
    BY <1>3, <2>2
<1>7. CASE next.reg = "KMRN_DIAG" /\ next.do # "restart"
  <2>1. next.do = "edit" /\ "NELPBK" \in next.off \cup next.on
    BY <1>1, <1>7 DEF Steps
  <2>2. PhyWrite \/ PhyWriteFails
    BY <2>1 DEF DoStep, MacWrite, ReadIgnored, AccessDone, AccessFails, Test, GiveUp,
                HwResetDone, HwResetFails, Restart, Next_is
  <2>3. CASE PhyWriteFails
    BY <1>7, <2>3 DEF PhyWriteFails, Accessed
  <2>4. CASE PhyWrite
    <3>1. todo' = SubSeq(todo, 2, Len(todo))
      <4>1. SkipTo(0)
        BY <2>4 DEF PhyWrite, Advance
      <4> QED
        BY <4>1 DEF SkipTo
    <3>2. reg'["KMRN_DIAG"] = Changed(reg["KMRN_DIAG"])
      <4>1. \A x : Changed(Changed(x)) = Changed(x)
        BY DEF Changed
      <4>2. reg \in [Registers -> SUBSET AllBits] /\ "KMRN_DIAG" # "EXT_CTRL"
        BY DEF StepsOK
      <4>3. PICK x : reg' = [reg EXCEPT ![next.reg] = Changed(@), !["EXT_CTRL"] = x]
        BY <2>4 DEF PhyWrite
      <4> QED
        BY <1>0, <1>7, <4>2, <4>3
    <3>3. "NELPBK" \in next.on
      BY <1>3, <2>1, <3>2 DEF Changed
    <3>4. next \notin Keeping(adapter, g)
      BY <1>0, <1>7, <2>1, <3>3 DEF Keeping, Edits
    <3>5. 1 < Len(todo) /\ todo[1 + 1] \in Setting(adapter, g)
      <4>1. Keeps(adapter, todo, g) /\ 1 \in 1 .. Len(todo) /\ todo[1] \notin Keeping(adapter, g)
        BY <1>1, <3>4 DEF LoopbackInv
      <4> HIDE DEF g
      <4>2. \A j \in 1 .. Len(todo) : todo[j] \in Keeping(adapter, g) \/ (j < Len(todo) /\ todo[j + 1] \in Setting(adapter, g))
        BY <4>1 DEF Keeps, KeepsFrom
      <4> QED
        BY <4>1, <4>2
    <3>6. todo' # <<>> /\ todo'[1] = todo[2]
      <4> DEFINE r == SubSeq(todo, 0 + 2, Len(todo))
      <4>1. todo \in Seq(Steps(adapter)) /\ todo # <<>> /\ 1 < Len(todo)
        BY <1>1, <3>5
      <4>2. /\ Len(todo) \in Nat \ {0} /\ Len(r) = Len(todo) - 0 - 1
            /\ \A j \in 1 .. Len(r) : r[j] = todo[j + 0 + 1]
        BY <4>1, RestOf
      <4>3. todo' = r
        BY <3>1
      <4> HIDE DEF r
      <4>4. 1 \in 1 .. Len(r) /\ r[1] = todo[2]
        BY <4>1, <4>2
      <4>5. r # <<>>
        BY <4>4, EmptySeq
      <4> QED
        BY <4>3, <4>4, <4>5
    <3> QED
      BY <3>5, <3>6
  <2> QED
    BY <2>2, <2>3, <2>4
<1> QED
  BY <1>5, <1>6, <1>7

LEMMA TypedReg ==
    ASSUME StepsOK, TypeOK
    PROVE  Typed(reg)
  BY DEF StepsOK, TypeOK, Typed

LEMMA InitInv == Init => IInv
<1> SUFFICES ASSUME Init PROVE IInv
  OBVIOUS
<1>1. call = "none" /\ todo = <<>> /\ ret_val = "success" /\ ignored = FALSE /\ diag_failed = FALSE
  BY DEF Init
<1>2. todo \in Seq(Steps(adapter)) /\ DOMAIN todo = {}
  BY <1>1
<1>3. Typed(reg)
  <2>1. reg = [r \in Registers |-> IF r \in DOMAIN PhyBits THEN PhyDefault[r] ELSE MacDefault[r]]
    BY DEF Init
  <2>2. \A r \in Registers : reg[r] \subseteq Bits(r)
    BY <2>1, DefaultBits
  <2> QED
    BY <2>1, <2>2, TypedIf
<1>4. TypeOK
  BY <1>1, <1>2, <1>3 DEF Init, TypeOK, Typed
<1>5. StepsOK
  BY <1>1, <1>2, <1>3 DEF StepsOK, Typed
<1>6. Goals(adapter, call, cfg) = {}
  BY <1>1 DEF Goals
<1>7. LoopbackInv
  <2>1. "KMRN_DIAG" \in Registers /\ "KMRN_DIAG" \notin DOMAIN PhyBits
    BY RegisterNames
  <2>2. "NELPBK" \notin reg["KMRN_DIAG"]
    BY <2>1, DefaultBits DEF Init
  <2> QED
    BY <1>1, <2>2, NoSteps DEF LoopbackInv
<1> QED
  BY <1>4, <1>5, <1>6, <1>7 DEF IInv, GoalInv

LEMMA BeginInv ==
    ASSUME IInv, NEW name \in Calls, NEW c \in Configs[adapter], Begin(name, c)
    PROVE  IInv'
<1> USE DEF IInv
<1>1. /\ adapter' = adapter /\ reg' = reg /\ cfg' = c /\ call' = name /\ todo' = Routine(name, c)
      /\ ret_val' = "success" /\ ignored' = FALSE /\ diag_failed' = diag_failed /\ todo = <<>>
  BY DEF Begin
<1>2. /\ todo' \in Seq(Steps(adapter))
      /\ \A g \in Goals(adapter, name, c) : Reaches(adapter, todo', g)
  BY <1>1, RoutineReaches
<1>3. \A i \in DOMAIN todo' : todo'[i].reg \in Registers \cup {"none"}
  <2>1. \A i \in DOMAIN todo' : todo'[i] \in Steps(adapter)
    BY <1>2
  <2> QED
    BY <2>1 DEF Steps
<1>4. TypeOK'
  <2>1. Calls' = Calls
    BY <1>1 DEF Calls, IsIch, Is82566
  <2> QED
    BY <1>1, <1>3, <2>1 DEF TypeOK
<1>5. StepsOK'
  BY <1>1, <1>2 DEF StepsOK
<1>6. GoalInv'
  BY <1>1, <1>2 DEF GoalInv
<1>7. LoopbackInv'
  <2>1. Keeps(adapter, todo', LoopbackOff)
    BY <1>1, RoutineQuiet DEF Quiet
  <2> QED
    BY <1>1, <2>1 DEF LoopbackInv
<1> QED
  BY <1>4, <1>5, <1>6, <1>7

LEMMA StepInv ==
    ASSUME IInv, DoStep
    PROVE  IInv'
<1> USE DEF IInv
<1>1. /\ todo # <<>> /\ ret_val = "success" /\ next \in Steps(adapter)
      /\ adapter' = adapter /\ cfg' = cfg /\ call' = call /\ (ignored => ignored')
  BY GoesOn
<1>2. Typed(reg)'
  BY TypedReg, TypedStep
<1>3. todo' \in Seq(Steps(adapter)) /\ (todo' # <<>> => ret_val' = "success")
  <2>1. CASE todo' = <<>>
    BY <2>1
  <2>2. ASSUME NEW n \in {0, next.skip}, todo' = SubSeq(todo, n + 2, Len(todo)), ret_val' = ret_val
        PROVE  todo' \in Seq(Steps(adapter)) /\ (todo' # <<>> => ret_val' = "success")
    <3>1. n \in Nat
      BY <1>1 DEF Steps
    <3> QED
      BY <1>1, <2>2, <3>1, RestOf DEF StepsOK
  <2> QED
    BY <2>1, <2>2, GoesOn
<1>4. TypeOK'
  <2>1. Calls' = Calls
    BY <1>1 DEF Calls, IsIch, Is82566
  <2>2. \A i \in DOMAIN todo' : todo'[i].reg \in Registers \cup {"none"}
    <3>1. \A i \in DOMAIN todo' : todo'[i] \in Steps(adapter)
      BY <1>3
    <3> QED
      BY <3>1 DEF Steps
  <2>3. ret_val' \in {"success", "error"} /\ ignored' \in BOOLEAN /\ diag_failed' \in BOOLEAN
    <3>1. ret_val \in {"success", "error"} /\ ignored \in BOOLEAN /\ diag_failed \in BOOLEAN
      BY DEF TypeOK
    <3> QED
      BY <3>1 DEF DoStep, Accessed, MacWrite, PhyWrite, PhyWriteFails, ReadIgnored, AccessDone, AccessFails, Test, GiveUp,
                  HwResetDone, HwResetFails, Restart, Advance, Fail
  <2> QED
    BY <1>1, <1>2, <2>1, <2>2, <2>3 DEF TypeOK, Typed
<1>5. StepsOK'
  BY <1>1, <1>2, <1>3 DEF StepsOK, Typed
<1>6. GoalInv'
  <2> SUFFICES ASSUME NEW g \in Goals(adapter, call, cfg), ret_val' = "success", ignored' => g.ign
               PROVE  Reaches(adapter, todo', g) \/ (Keeps(adapter, todo', g) /\ Holds(g)')
    BY <1>1 DEF GoalInv
  <2>1. call # "none"
    BY DEF Goals
  <2>2. call \in Calls /\ cfg \in Configs[adapter]
    BY <2>1 DEF TypeOK
  <2>3. g \in GoalType
    BY <2>2, RoutineReaches
  <2>4. Reaches(adapter, todo, g) \/ (Keeps(adapter, todo, g) /\ Holds(g))
    BY <1>1 DEF GoalInv
  <2> QED
    BY <2>3, <2>4, GoalStep
<1>7. LoopbackInv'
  BY LoopbackStep
<1> QED
  BY <1>4, <1>5, <1>6, <1>7

LEMMA NextInv ==
    ASSUME IInv, [Next]_vars
    PROVE  IInv'
<1>1. CASE Next
  BY <1>1, BeginInv, StepInv DEF Next
<1>2. CASE UNCHANGED vars
  <2>1. /\ adapter' = adapter /\ cfg' = cfg /\ call' = call /\ todo' = todo /\ ret_val' = ret_val
        /\ reg' = reg /\ ignored' = ignored /\ diag_failed' = diag_failed
    BY <1>2 DEF vars
  <2>2. Calls' = Calls
    BY <2>1 DEF Calls, IsIch, Is82566
  <2>3. TypeOK' /\ StepsOK'
    BY <2>1, <2>2 DEF IInv, TypeOK, StepsOK
  <2>4. GoalInv' /\ LoopbackInv'
    BY <2>1 DEF IInv, GoalInv, LoopbackInv, Holds
  <2> QED
    BY <2>3, <2>4 DEF IInv
<1> QED
  BY <1>1, <1>2

\* Whatever calls have gone before and however they ended, what a call has still to do reaches or
\* keeps everything it is to leave in the registers: the inductive invariant of PhySetup.
THEOREM InvCorrect == Spec => []IInv
  BY InitInv, NextInv, PTL DEF Spec

\* Registers only ever hold bits they have, and only rows of the adapter's own steps are worked off.
THEOREM TypeCorrect == Spec => []TypeOK
<1>1. IInv => TypeOK
  BY DEF IInv
<1> QED
  BY <1>1, InvCorrect, PTL
-----------------------------------------------------------------------------
(* What the goals say of the registers when a call has returned.           *)

LEMMA GoalHolds ==
    ASSUME IInv, todo = <<>>, NEW g \in Goals(adapter, call, cfg), ret_val = "success", ignored => g.ign
    PROVE  Holds(g)
<1>1. ~Reaches(adapter, todo, g)
  BY DEF Reaches
<1> QED
  BY <1>1 DEF IInv, GoalInv

LEMMA GoalMet ==
    ASSUME IInv, todo = <<>>, ret_val = "success", NEW r, NEW b, NEW v \in BOOLEAN,
           Goal(r, b, v) \in Goals(adapter, call, cfg)
    PROVE  b \in reg[r] <=> v
<1> DEFINE g == Goal(r, b, v)
<1>1. g.ign = TRUE /\ g.reg = r /\ g.bit = b /\ (g.to = 1 <=> v)
  BY DEF Goal
<1> HIDE DEF g
<1>2. Holds(g)
  BY <1>1, GoalHolds DEF g
<1> QED
  BY <1>1, <1>2 DEF Holds

\* A call that errors have not been ignored in has also met the goals which do not bear them.
LEMMA WatchedMet ==
    ASSUME IInv, todo = <<>>, ret_val = "success", ~ignored, NEW r, NEW b, NEW v \in BOOLEAN,
           Watched(Goal(r, b, v)) \in Goals(adapter, call, cfg)
    PROVE  b \in reg[r] <=> v
<1> DEFINE g == Watched(Goal(r, b, v))
<1>1. g.reg = r /\ g.bit = b /\ (g.to = 1 <=> v)
  BY DEF Goal, Watched
<1> HIDE DEF g
<1>2. Holds(g)
  BY <1>1, GoalHolds DEF g
<1> QED
  BY <1>1, <1>2 DEF Holds

LEMMA CfgTyped ==
    ASSUME TypeOK
    PROVE  /\ adapter \in [mac : {"ich8", "ich9"}, phy : {"igp_3", "ife", "bm"}]
                        \cup [mac : {"82571"}, phy : {"igp_2", "m88", "bm"}]
                        \cup [mac : {"80003"}, phy : {"gg82563"}]
           /\ cfg \in [autoneg : BOOLEAN, advertised : {"all", "10/100", "1000"}, speed : {10, 100},
                     full : BOOLEAN, mdix : 0 .. 3, ms_type : {"default", "master", "slave", "auto"},
                     smart_speed : {"default", "on", "off"}, disable_polarity_correction : BOOLEAN,
                     reset_disable : BOOLEAN, wait : BOOLEAN]
  BY Kinds DEF TypeOK

\* At gigabit, and below, all three places of the Kumeran interface are set alike.
THEOREM KumeranAgreesCorrect == Spec => []KumeranAgrees
<1>1. IInv => KumeranAgrees
  <2> SUFFICES ASSUME IInv, Returned({"kmrn_1000", "kmrn_full", "kmrn_half"}) PROVE KumeranAgrees
    BY DEF KumeranAgrees
  <2>1. todo = <<>> /\ ret_val = "success" /\ call \in {"kmrn_1000", "kmrn_full", "kmrn_half"}
    BY DEF Returned
  <2>2. Goals(adapter, call, cfg) = KumeranGoals(call)
    BY <2>1 DEF Goals
  <2>3. "1000" \in reg["KMRN_HD"] <=> call = "kmrn_1000"
    <3>1. Goal("KMRN_HD", "1000", call = "kmrn_1000") \in Goals(adapter, call, cfg)
      BY <2>2 DEF KumeranGoals
    <3> QED
      BY <2>1, <3>1, GoalMet
  <2>4. "IPGT_1000" \in reg["TIPG"] <=> call = "kmrn_1000"
    <3>1. Goal("TIPG", "IPGT_1000", call = "kmrn_1000") \in Goals(adapter, call, cfg)
      BY <2>2 DEF KumeranGoals
    <3> QED
      BY <2>1, <3>1, GoalMet
  <2>5. "PASS_FALSE_CARRIER" \in reg["KMRN_MODE"] <=> call = "kmrn_half"
    <3>1. Goal("KMRN_MODE", "PASS_FALSE_CARRIER", call = "kmrn_half") \in Goals(adapter, call, cfg)
      BY <2>2 DEF KumeranGoals
    <3> QED
      BY <2>1, <3>1, GoalMet
  <2> QED
    BY <2>3, <2>4, <2>5 DEF KumeranAgrees
<1> QED
  BY <1>1, InvCorrect, PTL

\* Whichever calls that make the gigabit workaround have run, and however they ended, its loopback is
\* only on between calls if the last access to its register failed.
THEOREM LoopbackUndoneCorrect == Spec => []LoopbackUndone
<1>1. IInv => LoopbackUndone
  BY DEF IInv, LoopbackInv, LoopbackUndone
<1> QED
  BY <1>1, InvCorrect, PTL

\* The low power link up a call is about and SmartSpeed end as the call was to leave them.
THEOREM LpluAsAskedCorrect == Spec => []LpluAsAsked
<1>1. IInv => LpluAsAsked
  <2> SUFFICES ASSUME IInv, ~ignored PROVE LpluAsAsked
    BY DEF LpluAsAsked
  <2>1. ASSUME NEW ich, NEW igp, NEW up \in BOOLEAN, todo = <<>>, ret_val = "success",
               LpluGoals(adapter, cfg, ich, igp, up) \subseteq Goals(adapter, call, cfg)
        PROVE  /\ IsIch => (ich \in reg["PHY_CTRL"] <=> up)
               /\ ~IsIch => (igp \in reg["POWER_MGMT"] <=> up)
               /\ up \/ cfg.smart_speed # "default" =>
                    ("SMART_SPEED" \in reg["PORT_CONFIG"] <=> ~up /\ cfg.smart_speed = "on")
    <3>1. IsIch => (ich \in reg["PHY_CTRL"] <=> up)
      <4> SUFFICES ASSUME IsIch PROVE ich \in reg["PHY_CTRL"] <=> up
        OBVIOUS
      <4>1. Watched(Goal("PHY_CTRL", ich, up)) \in Goals(adapter, call, cfg)
        BY <2>1 DEF LpluGoals, If, IsIch
      <4> QED
        BY <2>1, <4>1, WatchedMet
    <3>2. ~IsIch => (igp \in reg["POWER_MGMT"] <=> up)
      <4> SUFFICES ASSUME ~IsIch PROVE igp \in reg["POWER_MGMT"] <=> up
        OBVIOUS
      <4>1. Watched(Goal("POWER_MGMT", igp, up)) \in Goals(adapter, call, cfg)
        BY <2>1 DEF LpluGoals, If, IsIch
      <4> QED
        BY <2>1, <4>1, WatchedMet
    <3>3. up \/ cfg.smart_speed # "default" =>
                    ("SMART_SPEED" \in reg["PORT_CONFIG"] <=> ~up /\ cfg.smart_speed = "on")
      <4> SUFFICES ASSUME up \/ cfg.smart_speed # "default"
                   PROVE  "SMART_SPEED" \in reg["PORT_CONFIG"] <=> ~up /\ cfg.smart_speed = "on"
        OBVIOUS
      <4>1. Watched(Goal("PORT_CONFIG", "SMART_SPEED", ~up /\ cfg.smart_speed = "on")) \in Goals(adapter, call, cfg)
        BY <2>1 DEF LpluGoals, If
      <4> QED
        BY <2>1, <4>1, WatchedMet
    <3> QED
      BY <3>1, <3>2, <3>3
  <2>2. CASE Returned({"d0_on"}) /\ adapter.phy # "ife" /\ cfg.advertised # "1000"
    <3>1. LpluGoals(adapter, cfg, "D0A_LPLU", "D0_LPLU", TRUE) \subseteq Goals(adapter, call, cfg)
      BY <2>2 DEF Returned, Goals, If
    <3> QED
      BY <2>1, <2>2, <3>1 DEF Returned, LpluAsAsked
  <2>3. CASE Returned({"d3_on"}) /\ cfg.advertised # "1000"
    <3>1. LpluGoals(adapter, cfg, "NOND0A_LPLU", "D3_LPLU", TRUE) \subseteq Goals(adapter, call, cfg)
      BY <2>3 DEF Returned, Goals, If
    <3> QED
      BY <2>1, <2>3, <3>1 DEF Returned, LpluAsAsked
  <2>4. CASE Returned({"d0_off"}) /\ adapter.phy # "ife"
    <3>1. LpluGoals(adapter, cfg, "D0A_LPLU", "D0_LPLU", FALSE) \subseteq Goals(adapter, call, cfg)
      BY <2>4 DEF Returned, Goals, If
    <3> QED
      BY <2>1, <2>4, <3>1 DEF Returned, LpluAsAsked
  <2>5. CASE Returned({"d3_off"})
    <3>1. LpluGoals(adapter, cfg, "NOND0A_LPLU", "D3_LPLU", FALSE) \subseteq Goals(adapter, call, cfg)
      BY <2>5 DEF Returned, Goals
    <3> QED
      BY <2>1, <2>5, <3>1 DEF Returned, LpluAsAsked
  <2> QED
    BY <2>2, <2>3, <2>4, <2>5 DEF LpluAsAsked, Returned
<1> QED
  BY <1>1, InvCorrect, PTL

\* What a setup that succeeded has reached.
LEMMA SetupMet ==
    ASSUME IInv, Returned({"setup"}), NEW r, NEW b, NEW v \in BOOLEAN,
           Goal(r, b, v) \in SetupGoals(adapter, cfg)
    PROVE  b \in reg[r] <=> v
<1>1. todo = <<>> /\ ret_val = "success" /\ call = "setup"
  BY DEF Returned
<1>2. Goals(adapter, call, cfg) = SetupGoals(adapter, cfg)
  BY <1>1 DEF Goals
<1> QED
  BY <1>1, <1>2, GoalMet

LEMMA CrossoverMet ==
    ASSUME IInv, Returned({"setup"}), NEW r, NEW auto, NEW force, auto # force,
           ModeGoals(r, auto, force, Mdix) \subseteq SetupGoals(adapter, cfg)
    PROVE  CASE Mdix = 1 -> reg[r] \cap {auto, force} = {}
             [] Mdix = 2 -> reg[r] \cap {auto, force} = {force}
             [] OTHER -> auto \in reg[r]
<1>1. auto \in reg[r] <=> Mdix \notin {1, 2}
  <2>1. Goal(r, auto, Mdix \notin {1, 2}) \in SetupGoals(adapter, cfg)
    BY DEF ModeGoals
  <2> QED
    BY <2>1, SetupMet
<1>2. Mdix \in {1, 2} => (force \in reg[r] <=> Mdix = 2)
  <2> SUFFICES ASSUME Mdix \in {1, 2} PROVE force \in reg[r] <=> Mdix = 2
    OBVIOUS
  <2>1. Goal(r, force, Mdix = 2) \in SetupGoals(adapter, cfg)
    BY DEF ModeGoals, If
  <2> QED
    BY <2>1, SetupMet
<1> HIDE DEF Mdix
<1>3. CASE Mdix = 1
  BY <1>1, <1>2, <1>3
<1>4. CASE Mdix = 2
  BY <1>1, <1>2, <1>4
<1>5. CASE Mdix \notin {1, 2}
  BY <1>1, <1>5
<1> QED
  BY <1>3, <1>4, <1>5

\* A setup that succeeded has chosen the crossover asked for, or MDI for a forced speed.
THEOREM CrossoverAsAskedCorrect == Spec => []CrossoverAsAsked
<1>1. IInv => CrossoverAsAsked
  <2> SUFFICES ASSUME IInv, Returned({"setup"}), cfg.reset_disable => ~cfg.autoneg PROVE CrossoverAsAsked
    BY DEF CrossoverAsAsked
  <2>1. Mdix = (IF cfg.autoneg THEN cfg.mdix ELSE 1)
    BY DEF Mdix
  <2>2. CrossoverGoals(adapter, cfg) \subseteq SetupGoals(adapter, cfg)
    BY DEF SetupGoals
  <2>3. CASE adapter.phy \in {"igp_2", "igp_3"}
    <3>1. CrossoverGoals(adapter, cfg) = ModeGoals("PORT_CTRL", "AUTO_MDIX", "FORCE_MDI_MDIX", Mdix)
      BY <2>1, <2>3 DEF CrossoverGoals, If
    <3>2. /\ Mdix = 1 => reg["PORT_CTRL"] \cap {"AUTO_MDIX", "FORCE_MDI_MDIX"} = {}
          /\ Mdix = 2 => reg["PORT_CTRL"] \cap {"AUTO_MDIX", "FORCE_MDI_MDIX"} = {"FORCE_MDI_MDIX"}
          /\ Mdix \notin {1, 2} => "AUTO_MDIX" \in reg["PORT_CTRL"]
      BY <2>2, <3>1, CrossoverMet
    <3> QED
      BY <2>3, <3>2 DEF CrossoverAsAsked
  <2>4. CASE adapter.phy = "ife"
    <3>1. CrossoverGoals(adapter, cfg) = ModeGoals("MDIX_CONTROL", "AUTO_MDIX", "FORCE_MDIX", Mdix)
      BY <2>1, <2>4 DEF CrossoverGoals, If
    <3>2. /\ Mdix = 1 => reg["MDIX_CONTROL"] \cap {"AUTO_MDIX", "FORCE_MDIX"} = {}
          /\ Mdix = 2 => reg["MDIX_CONTROL"] \cap {"AUTO_MDIX", "FORCE_MDIX"} = {"FORCE_MDIX"}
          /\ Mdix \notin {1, 2} => "AUTO_MDIX" \in reg["MDIX_CONTROL"]
      BY <2>2, <3>1, CrossoverMet
    <3> QED
      BY <2>4, <3>2 DEF CrossoverAsAsked
  <2>5. CASE adapter.phy \in {"m88", "bm", "gg82563"} /\ (cfg.autoneg \/ ~IsIch)
    <3>1. CrossoverGoals(adapter, cfg) = XModeGoals(adapter, Mdix)
      BY <2>1, <2>5 DEF CrossoverGoals, If, IsIch
    <3>2. "X_MODE_0" \in reg["SPEC_CTRL"] <=> Mdix \in {0, 2} \/ (Mdix = 3 /\ adapter.phy = "gg82563")
      <4>1. Goal("SPEC_CTRL", "X_MODE_0", Mdix \in {0, 2} \/ (Mdix = 3 /\ adapter.phy = "gg82563")) \in SetupGoals(adapter, cfg)
        BY <2>2, <3>1 DEF XModeGoals
      <4> QED
        BY <4>1, SetupMet
    <3>3. "X_MODE_1" \in reg["SPEC_CTRL"] <=> Mdix \in {0, 3}
      <4> DEFINE v == Mdix \in {0, 3}
      <4>1. Goal("SPEC_CTRL", "X_MODE_1", v) \in SetupGoals(adapter, cfg) /\ v \in BOOLEAN
        BY <2>2, <3>1 DEF XModeGoals
      <4> HIDE DEF v
      <4>2. "X_MODE_1" \in reg["SPEC_CTRL"] <=> v
        BY <4>1, SetupMet
      <4> QED
        BY <4>2 DEF v
    <3>4. Mdix \in 0 .. 3
      BY <2>1, CfgTyped DEF IInv
    <3> HIDE DEF Mdix
    <3>5. reg["SPEC_CTRL"] \cap {"X_MODE_0", "X_MODE_1"} = XMode(Mdix)
      <4>1. CASE Mdix = 0
        BY <3>2, <3>3, <4>1 DEF XMode
      <4>2. CASE Mdix = 1
        BY <3>2, <3>3, <4>2 DEF XMode
      <4>3. CASE Mdix = 2
        BY <3>2, <3>3, <4>3 DEF XMode
      <4>4. CASE Mdix = 3
        BY <3>2, <3>3, <4>4 DEF XMode
      <4> QED
        BY <3>4, <4>1, <4>2, <4>3, <4>4
    <3> QED
      BY <2>5, <3>5 DEF CrossoverAsAsked
  <2>6. CASE adapter.phy \notin {"igp_2", "igp_3", "ife"} /\ ~(adapter.phy \in {"m88", "bm", "gg82563"} /\ (cfg.autoneg \/ ~IsIch))
    BY <2>6 DEF CrossoverAsAsked
  <2> QED
    BY <2>3, <2>4, <2>5, <2>6
<1> QED
  BY <1>1, InvCorrect, PTL

\* After a setup that succeeded both ends negotiate what was asked for, or both are forced to it.
THEOREM BothEndsAgreeCorrect == Spec => []BothEndsAgree
<1>1. IInv => BothEndsAgree
  <2> SUFFICES ASSUME IInv, Returned({"setup"}) PROVE BothEndsAgree
    BY DEF BothEndsAgree
  <2> DEFINE control == reg["PHY_CONTROL"]
             ctrl == reg["CTRL"]
  <2>1. cfg.autoneg \in BOOLEAN /\ cfg.full \in BOOLEAN
    BY CfgTyped DEF IInv
  <2>2. "SLU" \in ctrl
    <3>1. Goal("CTRL", "SLU", TRUE) \in SetupGoals(adapter, cfg)
      BY DEF SetupGoals
    <3> QED
      BY <3>1, SetupMet
  <2>3. \A bit \in {"FRCSPD", "FRCDPX"} : bit \in ctrl <=> ~cfg.autoneg
    <3>1. Goal("CTRL", "FRCSPD", ~cfg.autoneg) \in SetupGoals(adapter, cfg)
      BY DEF SetupGoals
    <3>2. Goal("CTRL", "FRCDPX", ~cfg.autoneg) \in SetupGoals(adapter, cfg)
      BY DEF SetupGoals
    <3>3. "FRCSPD" \in ctrl <=> ~cfg.autoneg
      BY <3>1, SetupMet
    <3>4. "FRCDPX" \in ctrl <=> ~cfg.autoneg
      BY <3>2, SetupMet
    <3> QED
      BY <3>3, <3>4
  <2>4. "AUTO_NEG_EN" \in control <=> cfg.autoneg
    <3>1. Goal("PHY_CONTROL", "AUTO_NEG_EN", cfg.autoneg) \in SetupGoals(adapter, cfg)
      BY DEF SetupGoals
    <3> QED
      BY <2>1, <3>1, SetupMet
  <2>5. ASSUME ~cfg.autoneg
        PROVE  /\ ("FD" \in ctrl <=> "FULL_DUPLEX" \in control) /\ ("SPD_100" \in ctrl <=> "SPEED_100" \in control)
               /\ "SPD_100" \in ctrl <=> cfg.speed = 100
               /\ "FD" \in ctrl <=> cfg.full
               /\ {"ASDE", "SPD_1000"} \cap ctrl = {} /\ "SPEED_1000" \notin control
               /\ adapter.phy = "m88" =>
                    "TX_CLK_25" \in reg["EXT_CTRL"] /\ "CRS_ON_TX" \in reg["SPEC_CTRL"]
               /\ adapter.phy = "gg82563" =>
                    ("TX_CLK_25" \in reg["EXT_CTRL"] <=> cfg.speed = 100)
    <3>1. ForcedGoals(adapter, cfg) \subseteq SetupGoals(adapter, cfg)
      BY <2>5 DEF SetupGoals
    <3>2. ("FD" \in ctrl <=> cfg.full) /\ ("FULL_DUPLEX" \in control <=> cfg.full)
      <4>1. Goal("CTRL", "FD", cfg.full) \in SetupGoals(adapter, cfg)
        BY <3>1 DEF ForcedGoals
      <4>2. Goal("PHY_CONTROL", "FULL_DUPLEX", cfg.full) \in SetupGoals(adapter, cfg)
        BY <3>1 DEF ForcedGoals
      <4> QED
        BY <2>1, <4>1, <4>2, SetupMet
    <3>3. ("SPD_100" \in ctrl <=> cfg.speed = 100) /\ ("SPEED_100" \in control <=> cfg.speed = 100)
      <4>1. Goal("CTRL", "SPD_100", cfg.speed = 100) \in SetupGoals(adapter, cfg)
        BY <3>1 DEF ForcedGoals
      <4>2. Goal("PHY_CONTROL", "SPEED_100", cfg.speed = 100) \in SetupGoals(adapter, cfg)
        BY <3>1 DEF ForcedGoals
      <4>3. "SPD_100" \in ctrl <=> cfg.speed = 100
        BY <4>1, SetupMet
      <4>4. "SPEED_100" \in control <=> cfg.speed = 100
        BY <4>2, SetupMet
      <4> QED
        BY <4>3, <4>4
    <3>4. {"ASDE", "SPD_1000"} \cap ctrl = {} /\ "SPEED_1000" \notin control
      <4>1. Goal("CTRL", "ASDE", FALSE) \in SetupGoals(adapter, cfg)
        BY <3>1 DEF ForcedGoals
      <4>2. Goal("CTRL", "SPD_1000", FALSE) \in SetupGoals(adapter, cfg)
        BY <3>1 DEF ForcedGoals
      <4>3. Goal("PHY_CONTROL", "SPEED_1000", FALSE) \in SetupGoals(adapter, cfg)
        BY <3>1 DEF ForcedGoals
      <4>4. "ASDE" \notin ctrl
        BY <4>1, SetupMet
      <4>5. "SPD_1000" \notin ctrl
        BY <4>2, SetupMet
      <4>6. "SPEED_1000" \notin control
        BY <4>3, SetupMet
      <4> QED
        BY <4>4, <4>5, <4>6
    <3>5. adapter.phy = "m88" => "TX_CLK_25" \in reg["EXT_CTRL"] /\ "CRS_ON_TX" \in reg["SPEC_CTRL"]
      <4> SUFFICES ASSUME adapter.phy = "m88"
                   PROVE  "TX_CLK_25" \in reg["EXT_CTRL"] /\ "CRS_ON_TX" \in reg["SPEC_CTRL"]
        OBVIOUS
      <4>1. Goal("EXT_CTRL", "TX_CLK_25", TRUE) \in SetupGoals(adapter, cfg)
        BY <3>1 DEF ForcedGoals, If
      <4>2. Goal("SPEC_CTRL", "CRS_ON_TX", TRUE) \in SetupGoals(adapter, cfg)
        BY <3>1 DEF ForcedGoals, If
      <4> QED
        BY <4>1, <4>2, SetupMet
    <3>6. adapter.phy = "gg82563" => ("TX_CLK_25" \in reg["EXT_CTRL"] <=> cfg.speed = 100)
      <4> SUFFICES ASSUME adapter.phy = "gg82563"
                   PROVE  "TX_CLK_25" \in reg["EXT_CTRL"] <=> cfg.speed = 100
        OBVIOUS
      <4>1. Goal("EXT_CTRL", "TX_CLK_25", cfg.speed = 100) \in SetupGoals(adapter, cfg)
        BY <3>1 DEF ForcedGoals, If
      <4> QED
        BY <4>1, SetupMet
    <3> QED
      BY <3>2, <3>3, <3>4, <3>5, <3>6
  <2>6. ASSUME cfg.autoneg
        PROVE  /\ "10/100" \in reg["PHY_AUTONEG_ADV"] <=> cfg.advertised # "1000"
               /\ adapter.phy # "ife" =>
                    ("FD_CAPS" \in reg["PHY_1000T_CTRL"] <=> cfg.advertised # "10/100")
               /\ adapter.phy \in {"igp_2", "igp_3"} /\ ~cfg.reset_disable /\ cfg.ms_type # "default" =>
                    ("MS_ENABLE" \in reg["PHY_1000T_CTRL"] <=> cfg.ms_type # "auto")
    <3>1. AutonegGoals(adapter, cfg) \subseteq SetupGoals(adapter, cfg)
      BY <2>6 DEF SetupGoals
    <3>2. "10/100" \in reg["PHY_AUTONEG_ADV"] <=> cfg.advertised # "1000"
      <4>1. Goal("PHY_AUTONEG_ADV", "10/100", cfg.advertised # "1000") \in SetupGoals(adapter, cfg)
        BY <3>1 DEF AutonegGoals
      <4> QED
        BY <4>1, SetupMet
    <3>3. adapter.phy # "ife" => ("FD_CAPS" \in reg["PHY_1000T_CTRL"] <=> cfg.advertised # "10/100")
      <4> SUFFICES ASSUME adapter.phy # "ife"
                   PROVE  "FD_CAPS" \in reg["PHY_1000T_CTRL"] <=> cfg.advertised # "10/100"
        OBVIOUS
      <4>1. Goal("PHY_1000T_CTRL", "FD_CAPS", cfg.advertised # "10/100") \in SetupGoals(adapter, cfg)
        BY <3>1 DEF AutonegGoals, If
      <4> QED
        BY <4>1, SetupMet
    <3>4. adapter.phy \in {"igp_2", "igp_3"} /\ ~cfg.reset_disable /\ cfg.ms_type # "default" =>
                    ("MS_ENABLE" \in reg["PHY_1000T_CTRL"] <=> cfg.ms_type # "auto")
      <4> SUFFICES ASSUME adapter.phy \in {"igp_2", "igp_3"} /\ ~cfg.reset_disable /\ cfg.ms_type # "default"
                   PROVE  "MS_ENABLE" \in reg["PHY_1000T_CTRL"] <=> cfg.ms_type # "auto"
        OBVIOUS
      <4>1. Goal("PHY_1000T_CTRL", "MS_ENABLE", cfg.ms_type # "auto") \in SetupGoals(adapter, cfg)
        BY <3>1 DEF AutonegGoals, If
      <4> QED
        BY <4>1, SetupMet
    <3> QED
      BY <3>2, <3>3, <3>4
  <2>7. adapter.mac = "80003" => "DIS_PADDING" \in reg["KMRN_INB"] /\ "DIS_PADDING" \in reg["INBAND"]
    <3> SUFFICES ASSUME adapter.mac = "80003"
                 PROVE  "DIS_PADDING" \in reg["KMRN_INB"] /\ "DIS_PADDING" \in reg["INBAND"]
      OBVIOUS
    <3>1. Goal("KMRN_INB", "DIS_PADDING", TRUE) \in SetupGoals(adapter, cfg)
      BY DEF SetupGoals, If
    <3>2. Goal("INBAND", "DIS_PADDING", TRUE) \in SetupGoals(adapter, cfg)
      BY DEF SetupGoals, If
    <3> QED
      BY <3>1, <3>2, SetupMet
  <2> QED
    BY <2>2, <2>3, <2>4, <2>5, <2>6, <2>7 DEF BothEndsAgree
<1> QED
  BY <1>1, InvCorrect, PTL
=============================================================================
