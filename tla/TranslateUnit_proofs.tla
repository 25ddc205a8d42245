------------------------ MODULE TranslateUnit_proofs ------------------------
(***************************************************************************)
(* Proofs about TranslateUnit for every program, entry point and setting   *)
(* of JIT_CONTROL.                                                         *)
(***************************************************************************)
EXTENDS TranslateUnit, TLAPS, SequenceTheorems, FiniteSetTheorems

Ops == {"plain", "bra", "bsr", "bcc", "dbcc", "rts", "stop"}

LEMMA Settings ==
  /\ Word \subseteq Nat
  /\ Depth \in Nat \ {0} /\ LoopCount \in Nat \ {0} /\ StackSize \in Nat \ {0}
  /\ Nowhere \notin Nat
  BY TranslateUnitAssumption DEF TranslateUnitAssumption

LEMMA InsnType ==
  ASSUME prog \in Program, NEW p \in Nat
  PROVE  Insn(p) \in [op : Ops, len : 1 .. 2, target : Nat]
<1>1. prog \in [Word -> [op : Ops, len : 1 .. 2, target : Word]]
  BY TranslateUnitAssumption DEF TranslateUnitAssumption, Ops
<1>2. CASE p \in Word
  <2>1. prog[p] \in [op : Ops, len : 1 .. 2, target : Word]
    BY <1>1, <1>2
  <2> QED
    BY <1>2, <2>1, Settings DEF Insn
<1>3. CASE p \notin Word
  BY <1>3 DEF Insn, Ops
<1> QED
  BY <1>2, <1>3

-----------------------------------------------------------------------------
(* The return stack.                                                       *)

LEMMA PushResult ==
  ASSUME NEW st \in Seq(Nat), Len(st) <= StackSize, NEW ret \in Nat
  PROVE  /\ Push(st, ret) \in Seq(Nat) /\ Len(Push(st, ret)) \in 1 .. StackSize
         /\ Len(Push(st, ret)) <= Len(st) + 1
         /\ Push(st, ret)[Len(Push(st, ret))] = ret
         /\ \A i \in 1 .. Len(Push(st, ret)) - 1 :
               Push(st, ret)[i] = st[Len(st) - Len(Push(st, ret)) + 1 + i]
<1>1. CASE Len(st) >= StackSize
  <2>1. st # <<>> /\ Len(st) = StackSize
    BY <1>1, Settings
  <2>2. /\ Tail(st) \in Seq(Nat) /\ Len(Tail(st)) = Len(st) - 1
        /\ \A i \in 1 .. Len(Tail(st)) : Tail(st)[i] = st[i + 1]
    BY <2>1, HeadTailProperties
  <2>3. Push(st, ret) = Append(Tail(st), ret)
    BY <1>1 DEF Push
  <2> DEFINE r == Tail(st)
  <2>4. /\ Append(r, ret) \in Seq(Nat) /\ Len(Append(r, ret)) = Len(r) + 1
        /\ \A i \in 1 .. Len(r) : Append(r, ret)[i] = r[i]
        /\ Append(r, ret)[Len(r) + 1] = ret
    BY <2>2, AppendProperties
  <2>5. Len(st) \in Nat /\ Len(Append(r, ret)) = Len(st)
    BY <2>2, <2>4, LenProperties
  <2>6. \A i \in 1 .. Len(st) - 1 : Append(r, ret)[i] = st[i + 1]
    BY <2>2, <2>4
  <2>7. Len(st) >= 1
    BY <2>1, Settings
  <2> HIDE DEF r
  <2> QED
    BY <2>1, <2>3, <2>4, <2>5, <2>6, <2>7 DEF r
<1>2. CASE Len(st) < StackSize
  <2>1. Push(st, ret) = Append(st, ret)
    BY <1>2, Settings DEF Push
  <2>2. /\ Append(st, ret) \in Seq(Nat) /\ Len(Append(st, ret)) = Len(st) + 1
        /\ \A i \in 1 .. Len(st) : Append(st, ret)[i] = st[i]
        /\ Append(st, ret)[Len(st) + 1] = ret
    BY AppendProperties
  <2> QED
    BY <1>2, <2>1, <2>2, Settings
<1> QED
  BY <1>1, <1>2, Settings

LEMMA SubSeqOfNats ==
  ASSUME NEW s, NEW m \in Int, NEW n \in Int, \A i \in m .. n : s[i] \in Nat
  PROVE  /\ SubSeq(s, m, n) \in Seq(Nat)
         /\ Len(SubSeq(s, m, n)) = IF m <= n THEN n - m + 1 ELSE 0
         /\ \A i \in 1 .. n - m + 1 : SubSeq(s, m, n)[i] = s[m + i - 1]
  BY SubSeqProperties

LEMMA FrontResult ==
  ASSUME NEW st \in Seq(Nat), st # <<>>
  PROVE  /\ Front(st) \in Seq(Nat) /\ Len(Front(st)) = Len(st) - 1 /\ Len(st) > 0
         /\ \A i \in 1 .. Len(st) - 1 : Front(st)[i] = st[i]
         /\ Last(st) \in Nat
<1>1. Len(st) \in Nat /\ Len(st) > 0
  BY EmptySeq
<1>2. st[Len(st)] \in Nat
  BY <1>1
<1>3. /\ 1 \in Int /\ Len(st) - 1 \in Int /\ Len(st) - 1 >= 0
      /\ \A i \in 1 .. Len(st) - 1 : st[i] \in Nat
  BY <1>1
<1> DEFINE q == SubSeq(st, 1, Len(st) - 1)
<1>4. /\ q \in Seq(Nat) /\ Len(q) = Len(st) - 1
      /\ \A i \in 1 .. Len(st) - 1 : q[i] = st[i]
  <2>1. /\ q \in Seq(Nat)
        /\ Len(q) = IF 1 <= Len(st) - 1 THEN (Len(st) - 1) - 1 + 1 ELSE 0
        /\ \A i \in 1 .. (Len(st) - 1) - 1 + 1 : q[i] = st[1 + i - 1]
    BY <1>3, SubSeqOfNats
  <2> HIDE DEF q
  <2>2. ASSUME NEW i \in 1 .. Len(st) - 1 PROVE q[i] = st[i]
    <3>1. i \in 1 .. (Len(st) - 1) - 1 + 1 /\ 1 + i - 1 = i
      BY <1>1
    <3> QED
      BY <2>1, <3>1
  <2>3. Len(q) = Len(st) - 1
    <3>1. CASE 1 <= Len(st) - 1
      BY <1>1, <2>1, <3>1
    <3>2. CASE ~(1 <= Len(st) - 1)
      <4>0. \A x \in Nat : x > 0 /\ ~(1 <= x - 1) => x - 1 = 0
        OBVIOUS
      <4>1. Len(st) - 1 = 0
        BY <1>1, <3>2, <4>0
      <4> QED
        BY <2>1, <3>2, <4>1
    <3> QED
      BY <3>1, <3>2
  <2> QED
    BY <2>1, <2>2, <2>3
<1>5. Front(st) = q /\ Last(st) = st[Len(st)]
  BY DEF Front, Last
<1> HIDE DEF q
<1> QED
  BY <1>1, <1>2, <1>4, <1>5

(* What the emitters do to it: a call that is followed pushes, a return    *)
(* that is followed pops, nothing else touches it.                         *)
LEMMA EmitResult ==
  ASSUME prog \in Program, NEW p \in Nat, rstack \in Seq(Nat), Len(rstack) <= StackSize
  PROVE  LET e == EmitINSN(p)
             op == Insn(p).op
         IN  /\ e.ptr \in Nat /\ e.stop \in BOOLEAN
             /\ op = "bsr" /\ ~e.stop => e.stack = Push(rstack, p + Insn(p).len)
             /\ op = "rts" /\ ~e.stop => rstack # <<>> /\ e.stack = Front(rstack)
             /\ e.stop \/ op \notin {"bsr", "rts"} => e.stack = rstack
<1> DEFINE i == Insn(p)
<1>1. i \in [op : Ops, len : 1 .. 2, target : Nat]
  BY InsnType
<1>2. p + i.len \in Nat /\ i.target \in Nat
  BY <1>1
<1>3. CASE i.op = "plain"
  BY <1>2, <1>3 DEF EmitINSN, Result
<1>4. CASE i.op \in {"bra", "bsr"}
  <2>1. EmitINSN(p) = EMIT_BRA(p, i)
    BY <1>4 DEF EmitINSN
  <2> QED
    BY <1>2, <1>4, <2>1 DEF EMIT_BRA, Result
<1>5. CASE i.op = "bcc"
  <2>1. EmitINSN(p) = EMIT_Bcc(p, i)
    BY <1>5 DEF EmitINSN
  <2> QED
    BY <1>2, <1>5, <2>1 DEF EMIT_Bcc, Result
<1>6. CASE i.op = "dbcc"
  <2>1. EmitINSN(p) = EMIT_DBcc(p, i)
    BY <1>6 DEF EmitINSN
  <2> QED
    BY <1>2, <1>6, <2>1 DEF EMIT_DBcc, Result
<1>7. CASE i.op = "rts"
  <2>1. EmitINSN(p) = EMIT_RTS(p, i)
    BY <1>7 DEF EmitINSN
  <2> QED
    BY <1>2, <1>7, <2>1, FrontResult DEF EMIT_RTS, Result
<1>8. CASE i.op = "stop"
  BY <1>2, <1>8 DEF EmitINSN, Result
<1> QED
  BY <1>1, <1>3, <1>4, <1>5, <1>6, <1>7, <1>8 DEF Ops

LEMMA EmitStack ==
  ASSUME prog \in Program, NEW p \in Nat, rstack \in Seq(Nat), Len(rstack) <= StackSize
  PROVE  EmitINSN(p).stack \in Seq(Nat) /\ Len(EmitINSN(p).stack) <= StackSize
<1> DEFINE i == Insn(p)
<1>0. i \in [op : Ops, len : 1 .. 2, target : Nat]
  BY InsnType
<1>1. p + i.len \in Nat
  BY <1>0
<1>2. Push(rstack, p + Insn(p).len) \in Seq(Nat)
      /\ Len(Push(rstack, p + Insn(p).len)) <= StackSize
  BY <1>1, PushResult, Settings
<1>3. rstack # <<>> => Front(rstack) \in Seq(Nat) /\ Len(Front(rstack)) <= StackSize
  BY FrontResult, Settings
<1> QED
  BY <1>2, <1>3, EmitResult

-----------------------------------------------------------------------------
(* The inductive invariant.  A loop that starts at the entry point has a   *)
(* copy left as long as the translation runs; the return stack is the end  *)
(* of the calls, element by element; the span holds the entry point and    *)
(* everything the translation went to.                                     *)

CopyLeft == ~done /\ innerLen # 0 => innerLimit >= 1

EndOfCalls ==
    /\ Len(rstack) <= Len(calls)
    /\ \A i \in 1 .. Len(rstack) : rstack[i] = calls[Len(calls) - Len(rstack) + i]

Spanned ==
    /\ low <= ptr /\ ptr <= high
    /\ \A i \in 1 .. Len(insns) : low <= insns[i] /\ insns[i] <= high

IInv == TypeOK /\ CopyLeft /\ EndOfCalls /\ Spanned

LEMMA InitInv == Init => IInv
<1> SUFFICES ASSUME Init PROVE IInv
  OBVIOUS
<1>1. entry \in Nat /\ 0 \in 0 .. Depth /\ 0 \in 0 .. LoopCount /\ 0 <= StackSize
  BY Settings DEF Init
<1>2. TypeOK
  <2>1. <<>> \in Seq(Nat) /\ Len(<<>>) = 0
    BY EmptySeq
  <2>2. entry + 2 \in Nat
    BY <1>1
  <2> QED
    <3>1. /\ prog \in Program /\ entry \in Word /\ ptr \in Nat
          /\ low \in Nat /\ high \in Nat
      BY <1>1, <2>2 DEF Init
    <3>2. /\ insns \in Seq(Nat) /\ rstack \in Seq(Nat) /\ Len(rstack) <= StackSize
          /\ calls \in Seq(Nat)
      BY <1>1, <2>1 DEF Init
    <3>3. lastRev \in Nat \cup {Nowhere} /\ maxRev \in Int
      BY DEF Init
    <3>4. innerLen \in 0 .. Depth /\ innerLimit \in 0 .. LoopCount
      BY <1>1 DEF Init
    <3>5. innerLoop \in BOOLEAN /\ done \in BOOLEAN
      BY DEF Init
    <3> QED
      BY <3>1, <3>2, <3>3, <3>4, <3>5 DEF TypeOK
<1>3. CopyLeft /\ EndOfCalls
  BY DEF Init, CopyLeft, EndOfCalls
<1>4. Spanned
  BY <1>1 DEF Init, Spanned
<1> QED
  BY <1>2, <1>3, <1>4 DEF IInv

LEMMA GiveUpInv == IInv /\ GiveUp => IInv'
<1> SUFFICES ASSUME IInv, GiveUp PROVE IInv'
  OBVIOUS
<1>1. TypeOK' /\ CopyLeft'
  BY DEF IInv, TypeOK, GiveUp, CopyLeft
<1>2. EndOfCalls' /\ Spanned'
  BY DEF IInv, EndOfCalls, Spanned, GiveUp
<1> QED
  BY <1>1, <1>2 DEF IInv

(* The count of copies that fit is at least 1 while the depth is not       *)
(* reached.                                                                *)
LEMMA CapacityBounds ==
  ASSUME NEW n \in 1 .. Depth
  PROVE  Capacity(n) \in 1 .. LoopCount
<1>1. Depth \div n \in Nat /\ Depth \div n >= 1
  BY Settings
<1> QED
  BY <1>1, Settings DEF Capacity, Lower

-----------------------------------------------------------------------------
LEMMA TranslateCalls ==
  ASSUME IInv, Translate
  PROVE  calls' \in Seq(Nat) /\ EndOfCalls'
<1> DEFINE i == Insn(ptr)
           e == EmitINSN(ptr)
           ret == ptr + i.len
<1>1. /\ prog \in Program /\ ptr \in Nat /\ calls \in Seq(Nat)
      /\ rstack \in Seq(Nat) /\ Len(rstack) <= StackSize
  BY DEF IInv, TypeOK
<1>2. i \in [op : Ops, len : 1 .. 2, target : Nat]
  BY <1>1, InsnType
<1>3. ret \in Nat
  BY <1>1, <1>2
<1>4. /\ e.stop \in BOOLEAN
      /\ i.op = "bsr" /\ ~e.stop => e.stack = Push(rstack, ret)
      /\ i.op = "rts" /\ ~e.stop => rstack # <<>> /\ e.stack = Front(rstack)
      /\ e.stop \/ i.op \notin {"bsr", "rts"} => e.stack = rstack
  BY <1>1, EmitResult
<1>5. /\ rstack' = e.stack
      /\ e.stop \/ i.op \notin {"bsr", "rts"} => calls' = calls
      /\ ~e.stop /\ i.op = "bsr" => calls' = Append(calls, ret)
      /\ ~e.stop /\ i.op = "rts" => calls' = Front(calls)
  <2>1. /\ rstack' = e.stack
        /\ calls' = CASE ~e.stop /\ i.op = "bsr" -> Append(calls, ret)
                      [] ~e.stop /\ i.op = "rts" -> Front(calls)
                      [] OTHER                   -> calls
    BY DEF Translate
  <2> HIDE DEF i, e, ret
  <2>2. e.stop => calls' = calls
    BY <2>1
  <2>3. ~e.stop /\ i.op = "bsr" => calls' = Append(calls, ret)
    BY <2>1
  <2>4. "bsr" # "rts" /\ (~e.stop /\ i.op = "rts" => i.op # "bsr")
    OBVIOUS
  <2>5. ~e.stop /\ i.op = "rts" => calls' = Front(calls)
    BY <2>1, <2>4
  <2>6. ~e.stop /\ i.op \notin {"bsr", "rts"} => calls' = calls
    BY <2>1
  <2> QED
    BY <2>1, <2>2, <2>3, <2>5, <2>6
<1>6. Len(calls) \in Nat /\ Len(rstack) \in Nat
  BY <1>1, LenProperties
<1> HIDE DEF i, e, ret
<1>7. CASE e.stop \/ i.op \notin {"bsr", "rts"}
  <2>1. rstack' = rstack /\ calls' = calls
    BY <1>4, <1>5, <1>7
  <2> QED
    BY <1>1, <2>1 DEF IInv, EndOfCalls
<1>8. CASE ~e.stop /\ i.op = "bsr"
  <2>1. rstack' = Push(rstack, ret) /\ calls' = Append(calls, ret)
    BY <1>4, <1>5, <1>8
  <2>2. /\ calls' \in Seq(Nat) /\ Len(calls') = Len(calls) + 1
        /\ \A j \in 1 .. Len(calls) : calls'[j] = calls[j]
        /\ calls'[Len(calls) + 1] = ret
    BY <1>1, <1>3, <2>1, AppendProperties
  <2> DEFINE k == Len(rstack')
  <2>3. /\ k \in 1 .. StackSize /\ k <= Len(rstack) + 1 /\ rstack'[k] = ret
        /\ \A j \in 1 .. k - 1 : rstack'[j] = rstack[Len(rstack) - k + 1 + j]
    BY <1>1, <1>3, <2>1, PushResult
  <2> HIDE DEF k
  <2>4. Len(rstack) <= Len(calls)
        /\ \A j \in 1 .. Len(rstack) : rstack[j] = calls[Len(calls) - Len(rstack) + j]
    BY DEF IInv, EndOfCalls
  <2>5. ASSUME NEW j \in 1 .. k PROVE rstack'[j] = calls'[Len(calls') - k + j]
    <3>1. k \in Int /\ k <= Len(rstack) + 1
      BY <2>3, Settings
    <3>2. CASE j = k
      BY <1>6, <2>2, <2>3, <3>1, <3>2
    <3>3. CASE j \in 1 .. k - 1
      <4> DEFINE m == Len(rstack) - k + 1 + j
      <4>1. m \in 1 .. Len(rstack) /\ Len(calls) - Len(rstack) + m = Len(calls) + 1 - k + j
        BY <1>6, <3>1, <3>3
      <4>2. rstack'[j] = rstack[m]
        BY <2>3, <3>3
      <4>3. rstack[m] = calls[Len(calls) + 1 - k + j]
        BY <2>4, <4>1
      <4>4. Len(calls) + 1 - k + j \in 1 .. Len(calls)
        BY <1>6, <2>4, <3>1, <3>3
      <4>5. calls'[Len(calls) + 1 - k + j] = calls[Len(calls) + 1 - k + j]
        BY <2>2, <4>4
      <4>6. Len(calls') - k + j = Len(calls) + 1 - k + j
        BY <1>6, <2>2, <3>1, <3>3
      <4> QED
        BY <4>2, <4>3, <4>5, <4>6
    <3> QED
      BY <3>1, <3>2, <3>3
  <2>6. k <= Len(calls')
    BY <1>6, <2>2, <2>3, <2>4, Settings
  <2> QED
    BY <2>2, <2>5, <2>6 DEF EndOfCalls, k
<1>9. CASE ~e.stop /\ i.op = "rts"
  <2>1. rstack # <<>> /\ rstack' = Front(rstack) /\ calls' = Front(calls)
    BY <1>4, <1>5, <1>9
  <2>2. /\ Len(rstack') = Len(rstack) - 1 /\ Len(rstack) > 0
        /\ \A j \in 1 .. Len(rstack) - 1 : rstack'[j] = rstack[j]
    BY <1>1, <2>1, FrontResult
  <2>3. Len(rstack) <= Len(calls)
        /\ \A j \in 1 .. Len(rstack) : rstack[j] = calls[Len(calls) - Len(rstack) + j]
    BY DEF IInv, EndOfCalls
  <2>4. calls # <<>>
    BY <1>1, <1>6, <2>2, <2>3, EmptySeq
  <2>5. /\ calls' \in Seq(Nat) /\ Len(calls') = Len(calls) - 1
        /\ \A j \in 1 .. Len(calls) - 1 : calls'[j] = calls[j]
    BY <1>1, <2>1, <2>4, FrontResult
  <2>6. ASSUME NEW j \in 1 .. Len(rstack')
        PROVE  rstack'[j] = calls'[Len(calls') - Len(rstack') + j]
    <3>1. /\ j \in 1 .. Len(rstack) - 1 /\ j \in 1 .. Len(rstack)
          /\ Len(calls) - Len(rstack) + j \in 1 .. Len(calls) - 1
          /\ Len(calls') - Len(rstack') + j = Len(calls) - Len(rstack) + j
      BY <1>6, <2>2, <2>3, <2>5
    <3> QED
      BY <2>2, <2>3, <2>5, <3>1
  <2>7. Len(rstack') <= Len(calls')
    BY <1>6, <2>2, <2>3, <2>5
  <2> QED
    BY <2>5, <2>6, <2>7 DEF EndOfCalls
<1> QED
  BY <1>7, <1>8, <1>9

LEMMA TranslateInv == IInv /\ Translate => IInv'
<1> SUFFICES ASSUME IInv, Translate PROVE IInv'
  OBVIOUS
<1> DEFINE e == EmitINSN(ptr)
           n == Len(insns) + 1
           again == ~e.stop /\ ~RevBreak(e.ptr) /\ e.ptr = entry
<1>1. /\ prog \in Program /\ entry \in Word /\ ptr \in Nat /\ insns \in Seq(Nat)
      /\ low \in Nat /\ high \in Nat
      /\ rstack \in Seq(Nat) /\ Len(rstack) <= StackSize
      /\ lastRev \in Nat \cup {Nowhere} /\ maxRev \in Int
      /\ innerLoop \in BOOLEAN
      /\ innerLen \in 0 .. Depth /\ innerLimit \in 0 .. LoopCount
      /\ (innerLen # 0 => innerLimit >= 1)
  BY DEF IInv, TypeOK, CopyLeft, Translate
<1>2. e.ptr \in Nat /\ e.stop \in BOOLEAN
  BY <1>1, EmitResult
<1>3. e.stack \in Seq(Nat) /\ Len(e.stack) <= StackSize
  BY <1>1, EmitStack
<1>4. n \in 1 .. Depth
  BY <1>1, Settings, LenProperties DEF Translate
<1>5. /\ insns' = Append(insns, ptr) /\ ptr' = e.ptr /\ rstack' = e.stack
      /\ low' = Lower(low, e.ptr) /\ high' = Higher(high, e.ptr)
      /\ RevJump(e.ptr)
      /\ IF again THEN EntryReached(n) ELSE UNCHANGED <<innerLen, innerLimit>>
      /\ done' = (e.stop \/ RevBreak(e.ptr) \/ (again /\ EntryBreak(n)))
      /\ innerLoop' = ((innerLoop \/ again) /\ (done' => e.ptr = entry))
      /\ prog' = prog /\ entry' = entry
  BY DEF Translate
<1> HIDE DEF e, n
<1>6. /\ insns' \in Seq(Nat) /\ Len(insns') = Len(insns) + 1
      /\ \A i \in 1 .. Len(insns) : insns'[i] = insns[i]
      /\ insns'[Len(insns) + 1] = ptr
  BY <1>1, <1>5, AppendProperties
<1>7. /\ low' \in Nat /\ low' <= low /\ low' <= e.ptr
      /\ high' \in Nat /\ high' >= high /\ high' >= e.ptr
  BY <1>1, <1>2, <1>5 DEF Lower, Higher
<1>8. lastRev' \in Nat \cup {Nowhere} /\ maxRev' \in Int
  <2>1. lastRev' = lastRev \/ lastRev' = e.ptr
    BY <1>5 DEF RevJump
  <2>2. maxRev' = maxRev \/ maxRev' = maxRev - 1 \/ maxRev' = LoopCount - 1
    BY <1>5 DEF RevJump
  <2>3. maxRev \in Int /\ LoopCount \in Int
    BY <1>1, Settings
  <2>4. maxRev' \in Int
    BY <2>2, <2>3
  <2> QED
    BY <1>1, <1>2, <2>1, <2>4
<1>9. /\ innerLen' \in 0 .. Depth /\ innerLimit' \in 0 .. LoopCount
      /\ CopyLeft'
  <2>1. CASE again
    <3>1. CASE innerLen = 0
      <4>1. innerLen' = n /\ innerLimit' = Capacity(n) - 1
        BY <1>5, <2>1, <3>1 DEF EntryReached
      <4>2. Capacity(n) \in 1 .. LoopCount
        BY <1>4, CapacityBounds
      <4>3. Capacity(n) <= 1 => done'
        BY <1>5, <2>1, <3>1 DEF EntryBreak
      <4> QED
        BY <1>4, <4>1, <4>2, <4>3, Settings DEF CopyLeft
    <3>2. CASE innerLen # 0
      <4>1. innerLen' = innerLen /\ innerLimit' = innerLimit - 1
        BY <1>5, <2>1, <3>2 DEF EntryReached
      <4>2. innerLimit = 1 => done'
        BY <1>5, <2>1, <3>2 DEF EntryBreak
      <4> QED
        BY <1>1, <3>2, <4>1, <4>2, Settings DEF CopyLeft
    <3> QED
      BY <3>1, <3>2
  <2>2. CASE ~again
    <3>1. innerLen' = innerLen /\ innerLimit' = innerLimit
      BY <1>5, <2>2
    <3> QED
      BY <1>1, <3>1 DEF CopyLeft
  <2> QED
    BY <2>1, <2>2
<1>10. done' \in BOOLEAN /\ innerLoop' \in BOOLEAN
  BY <1>1, <1>2, <1>5, Zenon DEF RevBreak, EntryBreak
<1>11. calls' \in Seq(Nat) /\ EndOfCalls'
  BY TranslateCalls
<1>12. TypeOK'
  BY <1>1, <1>2, <1>3, <1>5, <1>6, <1>7, <1>8, <1>9, <1>10, <1>11 DEF TypeOK
<1>13. Spanned'
  <2>1. /\ low <= ptr /\ ptr <= high
        /\ \A i \in 1 .. Len(insns) : low <= insns[i] /\ insns[i] <= high
    BY DEF IInv, Spanned
  <2>2. low' <= ptr' /\ ptr' <= high'
    BY <1>5, <1>7
  <2>3. ASSUME NEW i \in 1 .. Len(insns')
        PROVE  low' <= insns'[i] /\ insns'[i] <= high'
    <3>0. \A x \in Nat : low <= x /\ x <= high => low' <= x /\ x <= high'
      <4>1. /\ low \in Nat /\ low' \in Nat /\ low' <= low
            /\ high \in Nat /\ high' \in Nat /\ high' >= high
        BY <1>1, <1>7
      <4> QED
        BY <4>1
    <3>1. CASE i = Len(insns) + 1
      <4>1. insns'[i] = ptr
        BY <1>6, <3>1
      <4>2. ptr \in Nat /\ low <= ptr /\ ptr <= high
        BY <1>1, <2>1
      <4>3. low' <= ptr /\ ptr <= high'
        BY <3>0, <4>2
      <4> QED
        BY <4>1, <4>3
    <3>2. CASE i \in 1 .. Len(insns)
      <4>1. insns'[i] = insns[i] /\ insns[i] \in Nat
        <5>1. insns \in Seq(Nat)
          BY <1>1
        <5>2. insns[i] \in Nat
          BY <3>2, <5>1, ElementOfSeq
        <5> QED
          BY <1>6, <3>2, <5>2
      <4>2. low <= insns[i] /\ insns[i] <= high
        BY <2>1, <3>2
      <4> QED
        BY <3>0, <4>1, <4>2
    <3>3. Len(insns) \in Nat
      BY <1>1, LenProperties
    <3> QED
      BY <1>6, <3>1, <3>2, <3>3
  <2> QED
    BY <2>2, <2>3 DEF Spanned
<1> QED
  BY <1>9, <1>11, <1>12, <1>13 DEF IInv

LEMMA UnitInv == Spec => []IInv
<1>1. IInv /\ UNCHANGED vars => IInv'
  <2> SUFFICES ASSUME IInv, UNCHANGED vars PROVE IInv'
    OBVIOUS
  <2>1. TypeOK' /\ CopyLeft'
    BY DEF IInv, TypeOK, CopyLeft, vars, loop
  <2>2. EndOfCalls' /\ Spanned'
    BY DEF IInv, EndOfCalls, Spanned, vars
  <2> QED
    BY <2>1, <2>2 DEF IInv
<1>2. IInv /\ [Next]_vars => IInv'
  BY <1>1, GiveUpInv, TranslateInv DEF Next
<1> QED
  BY <1>2, InitInv, PTL DEF Spec

-----------------------------------------------------------------------------
(* Every variable keeps its type; in particular the return stack never     *)
(* holds more than RTSTACK_SIZE addresses and the count of loop copies     *)
(* never goes below 0.                                                     *)
THEOREM UnitTypeCorrect == Spec => []TypeOK
<1>1. IInv => TypeOK
  BY DEF IInv
<1> QED
  BY <1>1, UnitInv, PTL

(* However deep calls nest, what M68K_PopReturnAddress returns is the      *)
(* address the innermost open call returns to.                             *)
THEOREM ReturnsMatchCalls == Spec => []ReturnStackIsSuffix
<1>1. IInv => ReturnStackIsSuffix
  <2> SUFFICES ASSUME IInv PROVE ReturnStackIsSuffix
    OBVIOUS
  <2> DEFINE m == Len(calls) - Len(rstack) + 1
             q == SubSeq(calls, m, Len(calls))
  <2>1. calls \in Seq(Nat) /\ rstack \in Seq(Nat) /\ Len(rstack) <= Len(calls)
    BY DEF IInv, TypeOK, EndOfCalls
  <2>2. \A i \in 1 .. Len(rstack) : rstack[i] = calls[Len(calls) - Len(rstack) + i]
    BY DEF IInv, EndOfCalls
  <2>3. Len(calls) \in Nat /\ Len(rstack) \in Nat /\ m \in Int /\ m >= 1
        /\ Len(calls) \in Int
    BY <2>1, LenProperties
  <2>4. \A i \in m .. Len(calls) : calls[i] \in Nat
    BY <2>1, <2>3
  <2>5. /\ q \in Seq(Nat)
        /\ Len(q) = IF m <= Len(calls) THEN Len(calls) - m + 1 ELSE 0
        /\ \A i \in 1 .. Len(calls) - m + 1 : q[i] = calls[m + i - 1]
    BY <2>3, <2>4, SubSeqOfNats
  <2> HIDE DEF q
  <2>6. Len(q) = Len(rstack)
    BY <2>3, <2>5
  <2>7. ASSUME NEW i \in 1 .. Len(rstack) PROVE rstack[i] = q[i]
    <3>1. i \in 1 .. Len(calls) - m + 1 /\ m + i - 1 = Len(calls) - Len(rstack) + i
      BY <2>3
    <3> QED
      BY <2>2, <2>5, <3>1
  <2>8. rstack = q
    BY <2>1, <2>5, <2>6, <2>7, SeqEqual
  <2> QED
    BY <2>1, <2>8 DEF ReturnStackIsSuffix, q
<1> QED
  BY <1>1, UnitInv, PTL

(* What the translation passed through is in [m68k_low, m68k_high), the    *)
(* range M68K_VerifyUnit checks.                                           *)
THEOREM SpanAlwaysCovers == Spec => []SpanCoversStraightCode
<1>1. IInv => SpanCoversStraightCode
  <2> SUFFICES ASSUME IInv, NEW i \in 1 .. Len(insns), After(i) = Fall(i)
               PROVE  InSpan(i)
    BY DEF SpanCoversStraightCode
  <2>1. /\ low <= ptr /\ ptr <= high
        /\ \A j \in 1 .. Len(insns) : low <= insns[j] /\ insns[j] <= high
    BY DEF IInv, Spanned
  <2>2. Len(insns) \in Nat
    BY LenProperties DEF IInv, TypeOK
  <2>3. After(i) <= high
    <3>1. CASE i < Len(insns)
      <4>1. i + 1 \in 1 .. Len(insns)
        BY <2>2, <3>1
      <4> QED
        BY <2>1, <3>1, <4>1 DEF After
    <3>2. CASE ~(i < Len(insns))
      BY <2>1, <3>2 DEF After
    <3> QED
      BY <3>1, <3>2
  <2> QED
    BY <2>1, <2>3 DEF InSpan
<1> QED
  BY <1>1, UnitInv, PTL

-----------------------------------------------------------------------------
(***************************************************************************)
(* Unrolling.  When the translation is back at its entry point it repeats  *)
(* what it did, because the only state an emitter looks at is the return   *)
(* stack, and that ends with what the first pass had on it.                *)
(***************************************************************************)

EndsWith(s, t) ==
    /\ Len(t) <= Len(s)
    /\ \A i \in 1 .. Len(t) : t[i] = s[Len(s) - Len(t) + i]

Stack == {s \in Seq(Nat) : Len(s) <= StackSize}

LEMMA PushLength ==
  ASSUME NEW st \in Stack, NEW ret \in Nat
  PROVE  Len(Push(st, ret)) = IF Len(st) < StackSize THEN Len(st) + 1 ELSE StackSize
<1>0. st \in Seq(Nat) /\ Len(st) <= StackSize /\ Len(st) \in Nat
  BY LenProperties DEF Stack
<1>1. CASE Len(st) < StackSize
  <2>1. Push(st, ret) = Append(st, ret)
    BY <1>0, <1>1, Settings DEF Push
  <2> QED
    BY <1>0, <1>1, <2>1, AppendProperties
<1>2. CASE ~(Len(st) < StackSize)
  <2>1. Push(st, ret) = Append(Tail(st), ret) /\ st # <<>> /\ Len(st) = StackSize
    BY <1>0, <1>2, Settings DEF Push
  <2>2. Tail(st) \in Seq(Nat) /\ Len(Tail(st)) = Len(st) - 1
    BY <1>0, <2>1, HeadTailProperties
  <2>3. Len(Append(Tail(st), ret)) = Len(Tail(st)) + 1
    BY <2>2, AppendProperties
  <2> QED
    BY <1>0, <1>2, <2>1, <2>2, <2>3, Settings
<1> QED
  BY <1>1, <1>2

LEMMA PushEnds ==
  ASSUME NEW st \in Stack, NEW big \in Stack, EndsWith(big, st), NEW ret \in Nat
  PROVE  EndsWith(Push(big, ret), Push(st, ret))
<1> DEFINE p == Push(st, ret)
           P == Push(big, ret)
           k == Len(p)
           K == Len(P)
<1>0. /\ st \in Seq(Nat) /\ Len(st) <= StackSize /\ Len(st) \in Nat
      /\ big \in Seq(Nat) /\ Len(big) <= StackSize /\ Len(big) \in Nat
      /\ StackSize \in Nat /\ StackSize > 0
  BY LenProperties, Settings DEF Stack
<1>1. /\ k \in Nat /\ k >= 1 /\ k <= Len(st) + 1 /\ p[k] = ret
      /\ \A i \in 1 .. k - 1 : p[i] = st[Len(st) - k + 1 + i]
  BY <1>0, PushResult
<1>2. /\ K \in Nat /\ K >= 1 /\ K <= Len(big) + 1 /\ P[K] = ret
      /\ \A i \in 1 .. K - 1 : P[i] = big[Len(big) - K + 1 + i]
  BY <1>0, PushResult
<1>3. k <= K
  <2>1. k = IF Len(st) < StackSize THEN Len(st) + 1 ELSE StackSize
    BY PushLength
  <2>2. K = IF Len(big) < StackSize THEN Len(big) + 1 ELSE StackSize
    BY PushLength
  <2>3. Len(st) <= Len(big)
    BY DEF EndsWith
  <2> HIDE DEF k, K
  <2> QED
    BY <1>0, <2>1, <2>2, <2>3
<1> HIDE DEF p, P, k, K
<1>4. ASSUME NEW i \in 1 .. k
      PROVE  p[i] = P[K - k + i]
  <2>1. CASE i = k
    BY <1>1, <1>2, <2>1
  <2>2. CASE i # k
    <3> DEFINE j == Len(st) - k + 1 + i
    <3>1. i \in 1 .. k - 1 /\ K - k + i \in 1 .. K - 1 /\ j \in 1 .. Len(st)
          /\ Len(big) - Len(st) + j = Len(big) - k + 1 + i
          /\ Len(big) - K + 1 + (K - k + i) = Len(big) - k + 1 + i
      BY <1>0, <1>1, <1>2, <1>3, <2>2
    <3>2. p[i] = st[j]
      BY <1>1, <3>1
    <3> HIDE DEF j
    <3>3. st[j] = big[Len(big) - Len(st) + j]
      BY <3>1 DEF EndsWith
    <3>4. P[K - k + i] = big[Len(big) - K + 1 + (K - k + i)]
      BY <1>2, <3>1
    <3> QED
      BY <3>1, <3>2, <3>3, <3>4
  <2> QED
    BY <2>1, <2>2
<1> QED
  BY <1>3, <1>4 DEF EndsWith, p, P, k, K

LEMMA FrontEnds ==
  ASSUME NEW st \in Seq(Nat), NEW big \in Seq(Nat), EndsWith(big, st), st # <<>>
  PROVE  big # <<>> /\ Last(big) = Last(st) /\ EndsWith(Front(big), Front(st))
<1>1. /\ Len(st) \in Nat /\ Len(st) > 0 /\ Len(Front(st)) = Len(st) - 1
      /\ \A i \in 1 .. Len(st) - 1 : Front(st)[i] = st[i]
  BY FrontResult, LenProperties
<1>2. Len(big) \in Nat /\ Len(big) >= Len(st) /\ big # <<>>
  BY <1>1, LenProperties, EmptySeq DEF EndsWith
<1>3. /\ Len(Front(big)) = Len(big) - 1
      /\ \A i \in 1 .. Len(big) - 1 : Front(big)[i] = big[i]
  BY <1>2, FrontResult
<1>4. Last(big) = Last(st)
  <2>1. Len(st) \in 1 .. Len(st) /\ Len(big) - Len(st) + Len(st) = Len(big)
    BY <1>1, <1>2
  <2>2. st[Len(st)] = big[Len(big)]
    BY <2>1 DEF EndsWith
  <2> QED
    BY <2>2 DEF Last
<1>5. ASSUME NEW i \in 1 .. Len(st) - 1
      PROVE  Front(st)[i] = Front(big)[Len(big) - 1 - (Len(st) - 1) + i]
  <2> DEFINE j == Len(big) - Len(st) + i
  <2>1. i \in 1 .. Len(st) /\ j \in 1 .. Len(big) - 1
        /\ Len(big) - 1 - (Len(st) - 1) + i = j
    BY <1>1, <1>2
  <2>2. Front(st)[i] = st[i] /\ st[i] = big[j]
    BY <1>1, <2>1 DEF EndsWith
  <2> HIDE DEF j
  <2> QED
    BY <1>3, <2>1, <2>2
<1>6. Len(st) - 1 <= Len(big) - 1
  BY <1>1, <1>2
<1> QED
  BY <1>1, <1>2, <1>3, <1>4, <1>5, <1>6 DEF EndsWith

(* In program pr, in a unit with entry point en, the emission of the       *)
(* instruction at p with return stack st goes on at q with stack t.        *)
InsnOf(pr, p) == IF p \in Word THEN pr[p] ELSE [op |-> "stop", len |-> 1, target |-> 0]

Goes(pr, en, p, st, q, t) ==
    LET i == InsnOf(pr, p) IN
    \/ i.op = "plain" /\ q = p + i.len /\ t = st
    \/ i.op \in {"bra", "bsr"} /\ Inlined(p, i) /\ q = i.target
       /\ t = IF i.op = "bsr" THEN Push(st, p + i.len) ELSE st
    \/ i.op = "bcc" /\ q = (IF Taken(p, i) THEN i.target ELSE p + i.len) /\ t = st
    \/ i.op = "dbcc" /\ ~(i.target < en) /\ q = i.target /\ t = st
    \/ i.op = "rts" /\ st # <<>> /\ q = Last(st) /\ t = Front(st)

(* EmitINSN by instruction.                                                *)
LEMMA EmitCases ==
  ASSUME NEW p
  PROVE  LET i == Insn(p)
             e == EmitINSN(p)
         IN  /\ i.op = "plain" => e = Result(p + i.len, rstack, FALSE)
             /\ i.op \in {"bra", "bsr"} => e = EMIT_BRA(p, i)
             /\ i.op = "bcc" => e = EMIT_Bcc(p, i)
             /\ i.op = "dbcc" => e = EMIT_DBcc(p, i)
             /\ i.op = "rts" => e = EMIT_RTS(p, i)
             /\ i.op = "stop" => e = Result(p + i.len, rstack, TRUE)
<1> DEFINE i == Insn(p)
<1>1. i.op = "plain" => EmitINSN(p) = Result(p + i.len, rstack, FALSE)
  BY DEF EmitINSN
<1>2. i.op \in {"bra", "bsr"} => EmitINSN(p) = EMIT_BRA(p, i)
  BY DEF EmitINSN
<1>3. i.op = "bcc" => EmitINSN(p) = EMIT_Bcc(p, i)
  BY DEF EmitINSN
<1>4. i.op = "dbcc" => EmitINSN(p) = EMIT_DBcc(p, i)
  BY DEF EmitINSN
<1>5. i.op = "rts" => EmitINSN(p) = EMIT_RTS(p, i)
  BY DEF EmitINSN
<1>6. i.op = "stop" => EmitINSN(p) = Result(p + i.len, rstack, TRUE)
  BY DEF EmitINSN
<1> QED
  BY <1>1, <1>2, <1>3, <1>4, <1>5, <1>6

LEMMA EmitGoes ==
  ASSUME prog \in Program, NEW p \in Nat, ~EmitINSN(p).stop
  PROVE  Goes(prog, entry, p, rstack, EmitINSN(p).ptr, EmitINSN(p).stack)
<1> DEFINE i == Insn(p)
<1>1. i.op \in Ops
  BY InsnType
<1>2. CASE i.op = "plain"
  BY <1>2, EmitCases DEF Goes, InsnOf, Insn, Result
<1>3. CASE i.op \in {"bra", "bsr"}
  <2>1. EmitINSN(p) = EMIT_BRA(p, i)
    BY <1>3, EmitCases
  <2> QED
    BY <1>3, <2>1 DEF Goes, InsnOf, Insn, EMIT_BRA, Result
<1>4. CASE i.op = "bcc"
  <2>1. EmitINSN(p) = EMIT_Bcc(p, i)
    BY <1>4, EmitCases
  <2> QED
    BY <1>4, <2>1 DEF Goes, InsnOf, Insn, EMIT_Bcc, Result
<1>5. CASE i.op = "dbcc"
  <2> DEFINE before == i.target < entry
  <2>1. EmitINSN(p) = [ptr |-> i.target, stack |-> rstack, stop |-> before]
    BY <1>5, EmitCases DEF EMIT_DBcc, Result
  <2> HIDE DEF before
  <2>2. EmitINSN(p).ptr = i.target /\ EmitINSN(p).stack = rstack
    BY <2>1
  <2>3. EmitINSN(p).stop = before
    BY <2>1
  <2>4. ~(i.target < entry)
    BY <2>3, Zenon DEF before
  <2> HIDE DEF i
  <2> QED
    BY <1>5, <2>2, <2>4 DEF Goes, InsnOf, Insn, i
<1>6. CASE i.op = "rts"
  <2>1. EmitINSN(p) = EMIT_RTS(p, i)
    BY <1>6, EmitCases
  <2> QED
    BY <1>6, <2>1 DEF Goes, InsnOf, Insn, EMIT_RTS, Result
<1>7. CASE i.op = "stop"
  BY <1>7, EmitCases DEF Result
<1> QED
  BY <1>1, <1>2, <1>3, <1>4, <1>5, <1>6, <1>7 DEF Ops

(* A deeper stack with the same end leads to the same place.               *)
LEMMA GoesSame ==
  ASSUME prog \in Program, NEW p \in Nat, NEW st \in Stack, NEW q, NEW t,
         Goes(prog, entry, p, st, q, t), rstack \in Stack, EndsWith(rstack, st)
  PROVE  ~EmitINSN(p).stop /\ EmitINSN(p).ptr = q /\ EndsWith(EmitINSN(p).stack, t)
<1> DEFINE i == Insn(p)
<1>1. i \in [op : Ops, len : 1 .. 2, target : Nat] /\ p + i.len \in Nat
  BY InsnType
<1>2. CASE i.op = "plain"
  <2>1. q = p + i.len /\ t = st
    BY <1>2 DEF Goes, InsnOf, Insn
  <2>2. EmitINSN(p) = Result(p + i.len, rstack, FALSE)
    BY <1>2, EmitCases
  <2> QED
    BY <2>1, <2>2 DEF Result
<1>3. CASE i.op \in {"bra", "bsr"}
  <2>1. Inlined(p, i) /\ q = i.target /\ t = IF i.op = "bsr" THEN Push(st, p + i.len) ELSE st
    BY <1>3 DEF Goes, InsnOf, Insn
  <2>2. EmitINSN(p) = EMIT_BRA(p, i)
    BY <1>3, EmitCases
  <2>3. EndsWith(Push(rstack, p + i.len), Push(st, p + i.len))
    BY <1>1, PushEnds
  <2> QED
    BY <2>1, <2>2, <2>3 DEF EMIT_BRA, Result
<1>4. CASE i.op = "bcc"
  <2>1. q = (IF Taken(p, i) THEN i.target ELSE p + i.len) /\ t = st
    BY <1>4 DEF Goes, InsnOf, Insn
  <2>2. EmitINSN(p) = EMIT_Bcc(p, i)
    BY <1>4, EmitCases
  <2> QED
    BY <2>1, <2>2 DEF EMIT_Bcc, Result
<1>5. CASE i.op = "dbcc"
  <2>1. ~(i.target < entry) /\ q = i.target /\ t = st
    BY <1>5 DEF Goes, InsnOf, Insn
  <2> DEFINE before == i.target < entry
  <2>2. EmitINSN(p) = [ptr |-> i.target, stack |-> rstack, stop |-> before]
    BY <1>5, EmitCases DEF EMIT_DBcc, Result
  <2> HIDE DEF before
  <2>3. EmitINSN(p).ptr = i.target /\ EmitINSN(p).stack = rstack
    BY <2>2
  <2>4. EmitINSN(p).stop = before
    BY <2>2
  <2>5. ~EmitINSN(p).stop
    BY <2>1, <2>4, Zenon DEF before
  <2> QED
    BY <2>1, <2>3, <2>5
<1>6. CASE i.op = "rts"
  <2>1. st # <<>> /\ q = Last(st) /\ t = Front(st)
    BY <1>6 DEF Goes, InsnOf, Insn
  <2>2. EmitINSN(p) = EMIT_RTS(p, i)
    BY <1>6, EmitCases
  <2>3. rstack # <<>> /\ Last(rstack) = Last(st) /\ EndsWith(Front(rstack), Front(st))
    BY <2>1, FrontEnds DEF Stack
  <2> QED
    BY <2>1, <2>2, <2>3 DEF EMIT_RTS, Result
<1>7. i.op # "stop"
  BY DEF Goes, InsnOf, Insn
<1> QED
  BY <1>1, <1>2, <1>3, <1>4, <1>5, <1>6, <1>7 DEF Ops

-----------------------------------------------------------------------------
(* stk[j] is the return stack after j of the first n instructions, which   *)
(* lead from the entry point to end.                                       *)
Pass(pr, code, n, end, stk) ==
    /\ stk \in [0 .. n -> Stack] /\ stk[0] = <<>>
    /\ \A j \in 0 .. n - 1 :
          Goes(pr, code[1], code[j + 1], stk[j],
               IF j + 1 < n THEN code[j + 2] ELSE end, stk[j + 1])

(* Whole copies in the unit, and instructions of the next one.             *)
Whole == Capacity(innerLen) - innerLimit
Begun == Len(insns) - Whole * innerLen

OnlyFirstAt(n) == insns[1] = entry /\ \A j \in 2 .. n : insns[j] # entry

FirstPass ==
    ~done /\ innerLen = 0 =>
       /\ IF insns = <<>> THEN ptr = entry ELSE ptr # entry /\ OnlyFirstAt(Len(insns))
       /\ \E stk : Pass(prog, insns, Len(insns), ptr, stk) /\ stk[Len(insns)] = rstack

Repeats == \A i \in 1 .. Len(insns) : insns[i] = insns[((i - 1) % innerLen) + 1]

NextPasses ==
    innerLen # 0 =>
       /\ Whole \in Nat \ {0} /\ innerLen \in 1 .. Len(insns)
       /\ OnlyFirstAt(innerLen) /\ Repeats
       /\ ~done => /\ Begun \in 0 .. innerLen - 1 /\ ptr = insns[Begun + 1]
                   /\ \E stk : Pass(prog, insns, innerLen, entry, stk) /\ EndsWith(rstack, stk[Begun])
       /\ done /\ innerLoop => \E c \in 1 .. LoopCount : Len(insns) = c * innerLen

LoopInv == (innerLoop => innerLen # 0) /\ FirstPass /\ NextPasses

LEMMA LoopInit == Init => LoopInv
<1> SUFFICES ASSUME Init PROVE LoopInv
  OBVIOUS
<1>1. insns = <<>> /\ ptr = entry /\ rstack = <<>> /\ innerLen = 0 /\ ~innerLoop
  BY DEF Init
<1> DEFINE stk == [j \in 0 .. 0 |-> <<>>]
<1>2. stk \in [0 .. 0 -> Stack] /\ stk[0] = <<>>
  BY Settings, EmptySeq DEF Stack
<1> HIDE DEF stk
<1>3. Len(insns) = 0
  BY <1>1
<1>4. Pass(prog, insns, Len(insns), ptr, stk) /\ stk[Len(insns)] = rstack
  BY <1>1, <1>2, <1>3 DEF Pass
<1> QED
  BY <1>1, <1>4 DEF LoopInv, FirstPass, NextPasses

LEMMA LoopGiveUp == IInv /\ LoopInv /\ GiveUp => LoopInv'
<1> SUFFICES ASSUME IInv, LoopInv, GiveUp PROVE LoopInv'
  OBVIOUS
<1>1. ~done /\ done' /\ innerLoop' = (innerLoop /\ ptr = entry)
      /\ UNCHANGED <<prog, entry, ptr, insns, rstack, innerLen, innerLimit>>
  BY DEF GiveUp
<1>2. CASE innerLen = 0
  BY <1>1, <1>2 DEF LoopInv, FirstPass, NextPasses
<1>3. CASE innerLen # 0
  <2>1. /\ Whole \in Nat \ {0} /\ innerLen \in 1 .. Len(insns)
        /\ OnlyFirstAt(innerLen) /\ Repeats
        /\ Begun \in 0 .. innerLen - 1 /\ ptr = insns[Begun + 1]
    BY <1>1, <1>3 DEF LoopInv, NextPasses
  <2>2. innerLimit >= 1 /\ innerLimit \in Nat /\ innerLen \in 1 .. Depth /\ Len(insns) \in Nat
    BY <1>1, <1>3, LenProperties, Settings DEF IInv, CopyLeft, TypeOK
  <2>3. Capacity(innerLen) \in 1 .. LoopCount
    BY <2>2, CapacityBounds
  <2>4. ASSUME ptr = entry
        PROVE  Whole \in 1 .. LoopCount /\ Len(insns) = Whole * innerLen
    <3>1. Begun = 0
      <4>1. Begun # 0 => Begun + 1 \in 2 .. innerLen
        BY <2>1
      <4> QED
        BY <2>1, <2>4, <4>1 DEF OnlyFirstAt
    <3>2. Whole <= LoopCount
      BY <2>2, <2>3, Settings DEF Whole
    <3>3. Whole * innerLen \in Nat
      BY <2>1, <2>2
    <3> QED
      BY <2>1, <2>2, <3>1, <3>2, <3>3, Settings DEF Begun
  <2>5. done' /\ innerLoop' => \E c \in 1 .. LoopCount : Len(insns') = c * innerLen'
    BY <1>1, <2>4
  <2>6. (Whole \in Nat \ {0} /\ innerLen \in 1 .. Len(insns)
         /\ OnlyFirstAt(innerLen) /\ Repeats)'
    BY <1>1, <2>1 DEF Whole, OnlyFirstAt, Repeats
  <2> QED
    BY <1>1, <1>3, <2>5, <2>6 DEF LoopInv, FirstPass, NextPasses
<1> QED
  BY <1>2, <1>3

(* Remainders.                                                             *)
LEMMA ModOf ==
  ASSUME NEW c \in Nat, NEW n \in Nat, NEW j \in 0 .. n - 1
  PROVE  (c * n + j) % n = j
  BY SMT

LEMMA ModShift ==
  ASSUME NEW x \in Nat, NEW n \in Nat \ {0}
  PROVE  (x + n) % n = x % n
<1>1. x = (x \div n) * n + (x % n) /\ x \div n \in Nat /\ x % n \in 0 .. n - 1
  BY SMT
<1> DEFINE c == x \div n
           j == x % n
<1>2. ((c + 1) * n + j) % n = j
  <2> HIDE DEF c, j
  <2>1. c + 1 \in Nat
    BY <1>1 DEF c
  <2> QED
    BY <1>1, <2>1, ModOf DEF j
<1>3. (c + 1) * n = c * n + n
  BY <1>1, SMT
<1> HIDE DEF c, j
<1>4. c * n \in Nat /\ j \in Nat
  BY <1>1, SMT DEF c, j
<1>5. x + n = (c + 1) * n + j
  BY <1>1, <1>3, <1>4 DEF c, j
<1> QED
  BY <1>2, <1>5 DEF j

LEMMA ModSmall ==
  ASSUME NEW n \in Nat, NEW j \in 0 .. n - 1
  PROVE  j % n = j
  BY SMT

(* The effect of a step, for any of the passes.                            *)
LEMMA TranslateEffect ==
  ASSUME IInv, Translate
  PROVE  LET e == EmitINSN(ptr)
             n == Len(insns) + 1
             again == ~e.stop /\ ~RevBreak(e.ptr) /\ e.ptr = entry
         IN  /\ ~done /\ prog \in Program /\ ptr \in Nat /\ rstack \in Stack
             /\ Len(insns) \in Nat /\ n \in 1 .. Depth
             /\ e.ptr \in Nat /\ e.stack \in Stack /\ e.stop \in BOOLEAN
             /\ Len(insns') = n /\ insns'[n] = ptr /\ insns' # <<>>
             /\ \A i \in 1 .. Len(insns) : insns'[i] = insns[i]
             /\ ptr' = e.ptr /\ rstack' = e.stack /\ prog' = prog /\ entry' = entry
             /\ IF again THEN EntryReached(n) ELSE UNCHANGED <<innerLen, innerLimit>>
             /\ done' = (e.stop \/ RevBreak(e.ptr) \/ (again /\ EntryBreak(n)))
             /\ innerLoop' = ((innerLoop \/ again) /\ (done' => e.ptr = entry))
<1> DEFINE e == EmitINSN(ptr)
<1>1. /\ prog \in Program /\ ptr \in Nat /\ insns \in Seq(Nat)
      /\ rstack \in Seq(Nat) /\ Len(rstack) <= StackSize /\ Len(insns) \in Nat
  BY LenProperties DEF IInv, TypeOK
<1>2. e.ptr \in Nat /\ e.stop \in BOOLEAN
  BY <1>1, EmitResult
<1>3. e.stack \in Seq(Nat) /\ Len(e.stack) <= StackSize
  BY <1>1, EmitStack
<1>4. insns' = Append(insns, ptr) /\ Len(insns) < Depth
  BY DEF Translate
<1>5. /\ Len(insns') = Len(insns) + 1
      /\ \A i \in 1 .. Len(insns) : insns'[i] = insns[i]
      /\ insns'[Len(insns) + 1] = ptr
  BY <1>1, <1>4, AppendProperties
<1>6. Len(insns) + 1 \in 1 .. Depth /\ insns' # <<>>
  BY <1>1, <1>4, <1>5, Settings
<1>7. /\ ~done /\ ptr' = e.ptr /\ rstack' = e.stack /\ prog' = prog /\ entry' = entry
      /\ LET n == Len(insns) + 1
             again == ~e.stop /\ ~RevBreak(e.ptr) /\ e.ptr = entry
         IN  /\ IF again THEN EntryReached(n) ELSE UNCHANGED <<innerLen, innerLimit>>
             /\ done' = (e.stop \/ RevBreak(e.ptr) \/ (again /\ EntryBreak(n)))
             /\ innerLoop' = ((innerLoop \/ again) /\ (done' => e.ptr = entry))
  BY DEF Translate
<1>8. rstack \in Stack /\ e.stack \in Stack
  BY <1>1, <1>3 DEF Stack
<1> QED
  BY <1>1, <1>2, <1>5, <1>6, <1>7, <1>8

LEMMA LoopFirst ==
  ASSUME IInv, LoopInv, Translate, innerLen = 0
  PROVE  LoopInv'
<1> DEFINE e == EmitINSN(ptr)
           d == Len(insns)
           again == ~e.stop /\ ~RevBreak(e.ptr) /\ e.ptr = entry
<1>1. /\ ~done /\ prog \in Program /\ ptr \in Nat /\ rstack \in Stack
      /\ d \in Nat /\ d + 1 \in 1 .. Depth
      /\ e.ptr \in Nat /\ e.stack \in Stack /\ e.stop \in BOOLEAN
      /\ Len(insns') = d + 1 /\ insns'[d + 1] = ptr /\ insns' # <<>>
      /\ \A i \in 1 .. d : insns'[i] = insns[i]
      /\ ptr' = e.ptr /\ rstack' = e.stack /\ prog' = prog /\ entry' = entry
      /\ IF again THEN EntryReached(d + 1) ELSE UNCHANGED <<innerLen, innerLimit>>
      /\ done' = (e.stop \/ RevBreak(e.ptr) \/ (again /\ EntryBreak(d + 1)))
      /\ innerLoop' = ((innerLoop \/ again) /\ (done' => e.ptr = entry))
  BY TranslateEffect
<1>2. ~innerLoop
  BY DEF LoopInv
<1>3. (e.stop \/ RevBreak(e.ptr)) => ~again /\ done'
  BY <1>1
<1> HIDE DEF e, d
<1>4. CASE e.stop \/ RevBreak(e.ptr)
  <2>1. innerLen' = 0 /\ done' /\ ~innerLoop'
    BY <1>1, <1>2, <1>3, <1>4
  <2> QED
    BY <2>1 DEF LoopInv, FirstPass, NextPasses
<1>5. CASE ~e.stop /\ ~RevBreak(e.ptr)
  <2>1. Goes(prog, entry, ptr, rstack, e.ptr, e.stack)
    BY <1>1, <1>5, EmitGoes DEF e
  <2>2. PICK stk : Pass(prog, insns, d, ptr, stk) /\ stk[d] = rstack
    BY <1>1 DEF LoopInv, FirstPass, d
  <2>3. insns'[1] = entry /\ \A j \in 2 .. d + 1 : insns'[j] # entry
    <3>1. CASE insns = <<>>
      <4>1. d = 0 /\ ptr = entry
        BY <1>1, <3>1 DEF LoopInv, FirstPass, d
      <4> QED
        BY <1>1, <4>1
    <3>2. CASE insns # <<>>
      <4>1. ptr # entry /\ insns[1] = entry /\ \A j \in 2 .. d : insns[j] # entry
        BY <1>1, <3>2 DEF LoopInv, FirstPass, OnlyFirstAt, d
      <4>2. d >= 1
        BY <1>1, <3>2, EmptySeq DEF d, IInv, TypeOK
      <4>3. \A j \in 2 .. d + 1 : j \in 2 .. d \/ j = d + 1
        BY <1>1
      <4>4. \A j \in 2 .. d : j \in 1 .. d
        BY <1>1
      <4> QED
        BY <1>1, <4>1, <4>2, <4>3, <4>4
    <3> QED
      BY <3>1, <3>2
  <2>4. PICK new : new = [j \in 0 .. d + 1 |-> IF j <= d THEN stk[j] ELSE e.stack]
    OBVIOUS
  <2>5. new[d + 1] = e.stack /\ \A j \in 0 .. d : new[j] = stk[j]
    BY <1>1, <2>4
  <2>6. Pass(prog, insns', d + 1, e.ptr, new)
    <3>1. /\ stk \in [0 .. d -> Stack] /\ stk[0] = <<>>
          /\ \A j \in 0 .. d - 1 :
                Goes(prog, insns[1], insns[j + 1], stk[j],
                     IF j + 1 < d THEN insns[j + 2] ELSE ptr, stk[j + 1])
      BY <2>2 DEF Pass
    <3>2. new \in [0 .. d + 1 -> Stack] /\ new[0] = <<>>
      BY <1>1, <2>4, <3>1
    <3>3. ASSUME NEW j \in 0 .. d
          PROVE  Goes(prog, insns'[1], insns'[j + 1], new[j],
                      IF j + 1 < d + 1 THEN insns'[j + 2] ELSE e.ptr, new[j + 1])
      <4>1. CASE j = d
        BY <1>1, <2>1, <2>2, <2>3, <2>5, <4>1
      <4>2. CASE j # d
        <5>1. j \in 0 .. d - 1 /\ j + 1 \in 1 .. d /\ j + 1 \in 0 .. d /\ 1 \in 1 .. d
              /\ j + 1 < d + 1 /\ (j + 1 < d => j + 2 \in 1 .. d)
              /\ (~(j + 1 < d) => j + 2 = d + 1)
          BY <1>1, <4>2
        <5>2. insns'[j + 2] = IF j + 1 < d THEN insns[j + 2] ELSE ptr
          BY <1>1, <5>1
        <5>3. insns'[1] = insns[1] /\ insns'[j + 1] = insns[j + 1]
          BY <1>1, <5>1
        <5>4. new[j] = stk[j] /\ new[j + 1] = stk[j + 1]
          BY <2>5, <5>1
        <5> QED
          BY <3>1, <5>1, <5>2, <5>3, <5>4
      <4> QED
        BY <4>1, <4>2
    <3>4. PICK m : m = d + 1
      OBVIOUS
    <3>5. 0 .. m - 1 = 0 .. d
      BY <1>1, <3>4
    <3>6. \A j \in 0 .. m - 1 :
             Goes(prog, insns'[1], insns'[j + 1], new[j],
                  IF j + 1 < m THEN insns'[j + 2] ELSE e.ptr, new[j + 1])
      BY <3>3, <3>4, <3>5
    <3>7. new \in [0 .. m -> Stack] /\ new[0] = <<>>
      BY <3>2, <3>4
    <3> HIDE DEF again
    <3>8. Pass(prog, insns', m, e.ptr, new)
      BY <3>6, <3>7 DEF Pass
    <3> QED
      BY <3>4, <3>8
  <2>7. CASE e.ptr # entry
    <3>1. innerLen' = 0 /\ (done' => ~innerLoop') /\ ~innerLoop' /\ ptr' # entry'
      BY <1>1, <1>2, <2>7
    <3>2. FirstPass'
      <4>1. OnlyFirstAt(Len(insns))'
        BY <1>1, <2>3 DEF OnlyFirstAt
      <4>2. Pass(prog', insns', Len(insns'), ptr', new) /\ new[Len(insns')] = rstack'
        BY <1>1, <2>5, <2>6
      <4>3. \E stk_ : Pass(prog', insns', Len(insns'), ptr', stk_) /\ stk_[Len(insns')] = rstack'
        BY <4>2
      <4>4. insns' # <<>>
        BY <1>1
      <4> QED
        BY <3>1, <4>1, <4>3, <4>4 DEF FirstPass
    <3> QED
      BY <3>1, <3>2 DEF LoopInv, NextPasses
  <2>8. CASE e.ptr = entry
    <3>1. innerLen' = d + 1 /\ innerLimit' = Capacity(d + 1) - 1 /\ innerLen' # 0
      BY <1>1, <1>5, <2>8 DEF EntryReached
    <3>2. Capacity(d + 1) \in 1 .. LoopCount
      BY <1>1, CapacityBounds
    <3>3. Whole' = 1
      BY <3>1, <3>2, Settings DEF Whole
    <3>4. Begun' = 0
      BY <1>1, <3>1, <3>3 DEF Begun
    <3>5. OnlyFirstAt(innerLen)'
      BY <1>1, <2>3, <3>1 DEF OnlyFirstAt
    <3>6. Repeats'
      <4>1. \A j \in 1 .. d + 1 : (j - 1) % (d + 1) = j - 1 /\ j - 1 + 1 = j
        <5>1. ASSUME NEW j \in 1 .. d + 1 PROVE (j - 1) % (d + 1) = j - 1
          <6>1. j - 1 \in 0 .. (d + 1) - 1 /\ d + 1 \in Nat
            BY <1>1
          <6> QED
            BY <6>1, ModSmall
        <5> QED
          BY <1>1, <5>1
      <4> QED
        BY <1>1, <3>1, <4>1 DEF Repeats
    <3>7. EndsWith(rstack', new[0])
      <4>1. new[0] = <<>> /\ rstack' \in Seq(Nat) /\ Len(rstack') \in Nat
        BY <1>1, <2>6, LenProperties DEF Pass, Stack
      <4> QED
        BY <4>1, EmptySeq DEF EndsWith
    <3>8. Pass(prog', insns', innerLen', entry', new)
      BY <1>1, <2>6, <2>8, <3>1
    <3>9. Begun' \in 0 .. innerLen' - 1 /\ ptr' = insns'[Begun' + 1]
          /\ EndsWith(rstack', new[Begun'])
      BY <1>1, <2>3, <2>8, <3>1, <3>4, <3>7
    <3>10. \E c \in 1 .. LoopCount : Len(insns') = c * innerLen'
      <4>1. 1 \in 1 .. LoopCount /\ Len(insns') = 1 * innerLen'
        BY <1>1, <3>1, Settings
      <4> QED
        BY <4>1
    <3>11. Whole' \in Nat \ {0} /\ innerLen' \in 1 .. Len(insns')
      BY <1>1, <3>1, <3>3
    <3>12. NextPasses'
      BY <3>5, <3>6, <3>8, <3>9, <3>10, <3>11 DEF NextPasses
    <3> QED
      BY <3>1, <3>12 DEF LoopInv, FirstPass
  <2> QED
    BY <2>7, <2>8
<1> QED
  BY <1>4, <1>5

LEMMA LoopNext ==
  ASSUME IInv, LoopInv, Translate, innerLen # 0
  PROVE  LoopInv'
<1> DEFINE e == EmitINSN(ptr)
           d == Len(insns)
           again == ~e.stop /\ ~RevBreak(e.ptr) /\ e.ptr = entry
<1>1. /\ ~done /\ prog \in Program /\ ptr \in Nat /\ rstack \in Stack
      /\ d \in Nat /\ d + 1 \in 1 .. Depth
      /\ e.ptr \in Nat /\ e.stack \in Stack /\ e.stop \in BOOLEAN
      /\ Len(insns') = d + 1 /\ insns'[d + 1] = ptr /\ insns' # <<>>
      /\ \A i \in 1 .. d : insns'[i] = insns[i]
      /\ ptr' = e.ptr /\ rstack' = e.stack /\ prog' = prog /\ entry' = entry
      /\ IF again THEN EntryReached(d + 1) ELSE UNCHANGED <<innerLen, innerLimit>>
      /\ done' = (e.stop \/ RevBreak(e.ptr) \/ (again /\ EntryBreak(d + 1)))
      /\ innerLoop' = ((innerLoop \/ again) /\ (done' => e.ptr = entry))
  BY TranslateEffect
<1> HIDE DEF e, d
<1>2. PICK n : n = innerLen
  OBVIOUS
<1>3. PICK j : j = Begun
  OBVIOUS
<1>4. PICK w : w = Whole
  OBVIOUS
<1>5. /\ w \in Nat \ {0} /\ n \in 1 .. d /\ j \in 0 .. n - 1 /\ d = w * n + j
      /\ innerLimit \in Nat /\ innerLimit >= 1
      /\ Capacity(n) \in 1 .. LoopCount /\ w = Capacity(n) - innerLimit /\ w < LoopCount
  <2>1. w \in Nat \ {0} /\ n \in 1 .. d /\ j \in 0 .. n - 1
    BY <1>1, <1>2, <1>3, <1>4 DEF LoopInv, NextPasses, d
  <2>2. innerLimit \in Nat /\ innerLimit >= 1 /\ n \in 1 .. Depth
    BY <1>1, <1>2, Settings DEF IInv, CopyLeft, TypeOK
  <2>3. Capacity(n) \in 1 .. LoopCount
    BY <2>2, CapacityBounds
  <2>4. w = Capacity(n) - innerLimit /\ j = d - w * n
    BY <1>2, <1>3, <1>4 DEF Whole, Begun, d
  <2>5. w * n \in Nat
    BY <1>1, <2>1
  <2>6. d = w * n + j
    BY <1>1, <2>1, <2>4, <2>5
  <2>7. w < LoopCount
    BY <2>2, <2>3, <2>4, Settings
  <2> QED
    BY <2>1, <2>2, <2>3, <2>4, <2>6, <2>7
<1>in. /\ n \in Nat \ {0} /\ d \in Nat /\ n <= d /\ j \in Nat /\ j < n
  BY <1>1, <1>5
<1>6. /\ insns[1] = entry /\ \A i \in 2 .. n : insns[i] # entry
      /\ \A i \in 1 .. d : insns[i] = insns[((i - 1) % n) + 1]
      /\ ptr = insns[j + 1]
  BY <1>1, <1>2, <1>3 DEF LoopInv, NextPasses, OnlyFirstAt, Repeats, d
<1>7. PICK stk : Pass(prog, insns, n, entry, stk) /\ EndsWith(rstack, stk[j])
  BY <1>1, <1>2, <1>3 DEF LoopInv, NextPasses
<1>8. PICK next : next = IF j + 1 < n THEN insns[j + 2] ELSE entry
  OBVIOUS
<1>9. ~e.stop /\ e.ptr = next /\ EndsWith(e.stack, stk[j + 1])
  <2>1. Goes(prog, entry, ptr, stk[j], next, stk[j + 1]) /\ stk[j] \in Stack
    BY <1>5, <1>6, <1>7, <1>8 DEF Pass
  <2> QED
    BY <1>1, <1>7, <2>1, GoesSame DEF e
<1>10. \A i \in 1 .. d + 1 : insns'[i] = insns'[((i - 1) % n) + 1]
  <2> SUFFICES ASSUME NEW i \in 1 .. d + 1
               PROVE  insns'[i] = insns'[((i - 1) % n) + 1]
    OBVIOUS
  <2>1. \A x \in Nat : x % n \in 0 .. n - 1
    BY <1>5
  <2>2. CASE i \in 1 .. d
    <3>1. PICK r : r = (i - 1) % n
      OBVIOUS
    <3>2. i - 1 \in Nat /\ r \in 0 .. n - 1
      BY <2>1, <2>2, <3>1
    <3>3. r + 1 \in 1 .. d
      BY <1>5, <3>2
    <3> QED
      BY <1>1, <1>6, <2>2, <3>1, <3>3
  <2>3. CASE i = d + 1
    <3>1. i - 1 = w * n + j /\ w \in Nat /\ n \in Nat
      BY <1>1, <1>5, <2>3
    <3>2. (i - 1) % n = j
      BY <1>5, <3>1, ModOf
    <3>3. j + 1 \in 1 .. d
      BY <1>1, <1>5
    <3> QED
      BY <1>1, <1>6, <2>3, <3>2, <3>3
  <2> QED
    BY <1>1, <2>2, <2>3
<1>11. insns'[1] = entry /\ \A i \in 2 .. n : insns'[i] # entry
  <2>1. 1 \in 1 .. d /\ \A i \in 2 .. n : i \in 1 .. d
    BY <1>in
  <2> QED
    BY <1>1, <1>6, <2>1
<1>12. Pass(prog, insns', n, entry, stk)
  <2>1. \A i \in 0 .. n - 1 : i + 1 \in 1 .. d /\ (i + 1 < n => i + 2 \in 1 .. d) /\ 1 \in 1 .. d
    BY <1>in
  <2> QED
    BY <1>1, <1>7, <2>1 DEF Pass
<1>13. CASE j + 1 < n
  <2>1. e.ptr = insns[j + 2] /\ e.ptr # entry /\ j + 2 \in 1 .. d
    <3>1. e.ptr = insns[j + 2]
      BY <1>8, <1>9, <1>13
    <3>2. j + 2 \in 2 .. n /\ j + 2 \in 1 .. d
      BY <1>5, <1>13
    <3> QED
      BY <1>6, <3>1, <3>2
  <2>2. innerLen' = n /\ innerLimit' = innerLimit /\ (done' => ~innerLoop')
    BY <1>1, <1>2, <2>1
  <2>3. Whole' = w
    BY <1>5, <2>2 DEF Whole
  <2>4. Begun' = j + 1
    <3>1. PICK m : m = Whole' * innerLen'
      OBVIOUS
    <3>2. Begun' = Len(insns') - m
      BY <3>1 DEF Begun
    <3>3. m = w * n
      BY <2>2, <2>3, <3>1
    <3>4. m \in Nat /\ d = m + j
      BY <1>5, <3>3
    <3>5. Len(insns') = d + 1
      BY <1>1
    <3> QED
      BY <1>in, <3>2, <3>4, <3>5
  <2>5. Begun' \in 0 .. n - 1 /\ ptr' = insns'[Begun' + 1]
    <3>1. j + 1 + 1 = j + 2 /\ j + 1 \in 0 .. n - 1
      BY <1>5, <1>13
    <3> QED
      BY <1>1, <2>1, <2>4, <3>1
  <2>6. EndsWith(rstack', stk[Begun'])
    BY <1>1, <1>9, <2>4
  <2>7. Pass(prog', insns', innerLen', entry', stk)
    BY <1>1, <1>12, <2>2
  <2>8. (OnlyFirstAt(innerLen) /\ Repeats)'
    BY <1>1, <1>10, <1>11, <2>2 DEF OnlyFirstAt, Repeats
  <2>9. innerLen' \in 1 .. Len(insns') /\ innerLen' # 0
    BY <1>1, <1>in, <2>2
  <2>10. NextPasses'
    <3>1. Whole' \in Nat \ {0} /\ ~(done' /\ innerLoop')
      BY <1>5, <2>2, <2>3
    <3>2. Begun' \in 0 .. innerLen' - 1 /\ ptr' = insns'[Begun' + 1]
      BY <2>2, <2>5
    <3>3. \E stk_ : Pass(prog', insns', innerLen', entry', stk_) /\ EndsWith(rstack', stk_[Begun'])
      BY <2>6, <2>7
    <3> QED
      BY <2>8, <2>9, <3>1, <3>2, <3>3 DEF NextPasses
  <2> QED
    BY <2>9, <2>10 DEF LoopInv, FirstPass
<1>14. CASE ~(j + 1 < n)
  <2>1. j + 1 = n /\ e.ptr = entry /\ d + 1 = (w + 1) * n /\ w + 1 \in 1 .. LoopCount
    <3>1. j + 1 = n
      BY <1>5, <1>14
    <3>2. e.ptr = entry
      BY <1>8, <1>9, <1>14
    <3>3. w + 1 \in 1 .. LoopCount
      BY <1>5, Settings
    <3>4. PICK m : m = w * n
      OBVIOUS
    <3>5. (w + 1) * n = m + n /\ m \in Nat
      BY <1>5, <3>4
    <3>6. d = m + j
      BY <1>5, <3>4
    <3>7. d + 1 = m + n
      BY <1>5, <3>1, <3>5, <3>6
    <3> QED
      BY <3>1, <3>2, <3>3, <3>5, <3>7
  <2>2. \E c \in 1 .. LoopCount : Len(insns') = c * n
    BY <1>1, <2>1
  <2>3. CASE RevBreak(e.ptr)
    <3>1. innerLen' = n /\ innerLimit' = innerLimit /\ done'
      BY <1>1, <1>2, <2>3
    <3>2. Whole' = w
      BY <1>5, <3>1 DEF Whole
    <3>3. (OnlyFirstAt(innerLen) /\ Repeats)'
      BY <1>1, <1>10, <1>11, <3>1 DEF OnlyFirstAt, Repeats
    <3>4. innerLen' \in 1 .. Len(insns') /\ innerLen' # 0
      BY <1>1, <1>in, <3>1
    <3>5. NextPasses'
      <4>1. Whole' \in Nat \ {0} /\ \E c \in 1 .. LoopCount : Len(insns') = c * innerLen'
        BY <1>5, <2>2, <3>1, <3>2
      <4> QED
        BY <3>1, <3>3, <3>4, <4>1 DEF NextPasses
    <3> QED
      BY <3>1, <3>4, <3>5 DEF LoopInv, FirstPass
  <2>4. CASE ~RevBreak(e.ptr)
    <3>1. innerLen' = n /\ innerLimit' = innerLimit - 1
      BY <1>1, <1>2, <1>9, <2>1, <2>4 DEF EntryReached
    <3>2. Whole' = w + 1
      BY <1>5, <3>1, Settings DEF Whole
    <3>3. Begun' = 0
      <4>1. Begun' = Len(insns') - Whole' * innerLen'
        BY DEF Begun
      <4>2. PICK m : m = (w + 1) * n
        OBVIOUS
      <4>3. Begun' = (d + 1) - m /\ m = d + 1
        BY <1>1, <2>1, <3>1, <3>2, <4>1, <4>2
      <4> QED
        BY <1>in, <4>3
    <3>4. (OnlyFirstAt(innerLen) /\ Repeats)'
      BY <1>1, <1>10, <1>11, <3>1 DEF OnlyFirstAt, Repeats
    <3>5. innerLen' \in 1 .. Len(insns') /\ innerLen' # 0
      BY <1>1, <1>in, <3>1
    <3>6. EndsWith(rstack', stk[0])
      <4>1. stk[0] = <<>> /\ rstack' \in Seq(Nat) /\ Len(rstack') \in Nat
        BY <1>1, <1>7, LenProperties DEF Pass, Stack
      <4> QED
        BY <4>1, EmptySeq DEF EndsWith
    <3>7. Pass(prog', insns', innerLen', entry', stk)
      BY <1>1, <1>12, <3>1
    <3>8. Begun' \in 0 .. innerLen' - 1 /\ ptr' = insns'[Begun' + 1]
          /\ EndsWith(rstack', stk[Begun'])
      <4>1. ptr' = entry /\ insns'[1] = entry
        BY <1>1, <1>11, <2>1
      <4>2. 0 \in 0 .. innerLen' - 1 /\ 0 + 1 = 1
        BY <1>in, <3>1
      <4> QED
        BY <3>3, <3>6, <4>1, <4>2
    <3>9. Whole' \in Nat \ {0} /\ \E c \in 1 .. LoopCount : Len(insns') = c * innerLen'
      <4>1. PICK c : c = w + 1
        OBVIOUS
      <4>2. c \in 1 .. LoopCount /\ Whole' = c
        BY <2>1, <3>2, <4>1
      <4>3. Len(insns') = c * innerLen'
        BY <1>1, <2>1, <3>1, <4>1
      <4>4. c \in Nat \ {0}
        BY <4>2, Settings
      <4> QED
        BY <4>2, <4>3, <4>4
    <3>10. \E stk_ : Pass(prog', insns', innerLen', entry', stk_) /\ EndsWith(rstack', stk_[Begun'])
      BY <3>7, <3>8
    <3>11. NextPasses'
      BY <3>4, <3>5, <3>8, <3>9, <3>10 DEF NextPasses
    <3> QED
      BY <3>5, <3>11 DEF LoopInv, FirstPass
  <2> QED
    BY <2>3, <2>4
<1> QED
  BY <1>5, <1>13, <1>14

LEMMA LoopAlways == Spec => [](IInv /\ LoopInv)
<1>1. LoopInv /\ UNCHANGED vars => LoopInv'
  BY DEF LoopInv, FirstPass, NextPasses, OnlyFirstAt, Repeats, Whole, Begun, vars, loop
<1>2. IInv /\ LoopInv /\ [Next]_vars => LoopInv'
  BY <1>1, LoopGiveUp, LoopFirst, LoopNext DEF Next
<1> QED
  BY <1>2, LoopInit, UnitInv, PTL DEF Spec

(* LoopsBackWhole: a unit that ends with a jump to its own start is made   *)
(* of whole copies of its loop, JCC_LOOP_COUNT of them at most, whatever   *)
(* calls and returns the loop contains: the return stack of a later copy   *)
(* is deeper than that of the first, and what is popped from it is equal.  *)
THEOREM UnitsLoopWhole == Spec => []LoopsBackWhole
<1>1. IInv /\ LoopInv => LoopsBackWhole
  <2> SUFFICES ASSUME IInv, LoopInv, done, innerLoop
               PROVE  /\ Len(insns) % innerLen = 0 /\ Len(insns) <= innerLen * LoopCount
                      /\ \A i \in 1 .. Len(insns) - innerLen : insns[i + innerLen] = insns[i]
    BY DEF LoopsBackWhole
  <2>1. /\ innerLen \in 1 .. Len(insns) /\ Repeats /\ Len(insns) \in Nat
        /\ \E c \in 1 .. LoopCount : Len(insns) = c * innerLen
    BY LenProperties DEF LoopInv, NextPasses, IInv, TypeOK
  <2>2. PICK c \in 1 .. LoopCount : Len(insns) = c * innerLen
    BY <2>1
  <2>3. Len(insns) % innerLen = 0
    <3>1. 0 \in 0 .. innerLen - 1 /\ c \in Nat /\ innerLen \in Nat
      BY <2>1, Settings
    <3>2. (c * innerLen + 0) % innerLen = 0
      BY <3>1, ModOf
    <3> QED
      BY <2>1, <2>2, <3>2
  <2>4. Len(insns) <= innerLen * LoopCount
    <3>1. \A x, y, z \in Nat : x <= y => x * z <= z * y
      OBVIOUS
    <3> QED
      BY <2>1, <2>2, <3>1, Settings
  <2>5. ASSUME NEW i \in 1 .. Len(insns) - innerLen
        PROVE  insns[i + innerLen] = insns[i]
    <3>1. i + innerLen \in 1 .. Len(insns) /\ i \in 1 .. Len(insns) /\ i - 1 \in Nat
          /\ i + innerLen - 1 = (i - 1) + innerLen /\ innerLen \in Nat \ {0}
      BY <2>1
    <3>2. (i + innerLen - 1) % innerLen = (i - 1) % innerLen
      BY <3>1, ModShift
    <3> QED
      BY <2>1, <3>1, <3>2 DEF Repeats
  <2> QED
    BY <2>3, <2>4, <2>5
<1> QED
  BY <1>1, LoopAlways, PTL

-----------------------------------------------------------------------------
(***************************************************************************)
(* The limit on backward jumps.  With one instruction that jumps           *)
(* backwards, last_rev_jump is its target from the first jump on and       *)
(* max_rev_jumps counts down from JCC_LOOP_COUNT as its copies count up.   *)
(***************************************************************************)

(* k copies of the instruction at w, which jumps back to t.                *)
LimitedTo(w, t, k, p, last, max, over) ==
    /\ k \in Nat /\ k <= LoopCount
    /\ (~over /\ p <= w) => \/ k = 0 /\ last = Nowhere
                            \/ k >= 1 /\ last = t /\ max = LoopCount - k /\ max >= 1

BackTo(w, t) == OnlyLoop(w) /\ t \in JumpsTo(w) /\ t < w

Limited(w, t) == BackTo(w, t) => LimitedTo(w, t, Copies(w), ptr, lastRev, maxRev, done)

LimitInv == \A w, t \in Word : Limited(w, t)

LEMMA CopiesInit ==
  ASSUME Init, NEW w
  PROVE  Copies(w) = 0
<1>1. insns = <<>> /\ Len(insns) = 0
  BY DEF Init
<1>2. {i \in 1 .. Len(insns) : insns[i] = w} = {}
  BY <1>1
<1> QED
  BY <1>2, FS_EmptySet DEF Copies

LEMMA CopiesNext ==
  ASSUME IInv, Translate, NEW w
  PROVE  Copies(w) \in Nat /\ Copies(w)' = IF ptr = w THEN Copies(w) + 1 ELSE Copies(w)
<1> DEFINE d == Len(insns)
           C == {i \in 1 .. d : insns[i] = w}
<1>1. /\ insns \in Seq(Nat) /\ ptr \in Nat /\ d \in Nat
  BY LenProperties DEF IInv, TypeOK
<1>2. /\ Len(insns') = d + 1 /\ insns'[d + 1] = ptr
      /\ \A i \in 1 .. d : insns'[i] = insns[i]
  BY <1>1, AppendProperties DEF Translate
<1> HIDE DEF d
<1>3. IsFiniteSet(1 .. d) /\ C \subseteq 1 .. d
  BY <1>1, FS_Interval
<1>4. IsFiniteSet(C) /\ Cardinality(C) \in Nat
  BY <1>3, FS_Subset, FS_CardinalityType
<1>5. Copies(w) = Cardinality(C)
  BY DEF Copies, d
<1>6. Copies(w)' = Cardinality({i \in 1 .. d + 1 : insns'[i] = w})
  BY <1>2 DEF Copies
<1>7. CASE ptr = w
  <2>1. {i \in 1 .. d + 1 : insns'[i] = w} = C \cup {d + 1}
    BY <1>1, <1>2, <1>7
  <2>2. d + 1 \notin C
    BY <1>1
  <2> QED
    BY <1>4, <1>5, <1>6, <1>7, <2>1, <2>2, FS_AddElement
<1>8. CASE ptr # w
  <2>1. {i \in 1 .. d + 1 : insns'[i] = w} = C
    BY <1>1, <1>2, <1>8
  <2> QED
    BY <1>4, <1>5, <1>6, <1>8, <2>1
<1> QED
  BY <1>7, <1>8

(* Where an instruction leads when only the one at w can jump backwards.   *)
LEMMA OnlyWLeadsBack ==
  ASSUME prog \in Program, NEW w \in Word, NEW t \in Word, BackTo(w, t), NEW p \in Nat
  PROVE  /\ EmitINSN(p).ptr \in Nat
         /\ p # w => EmitINSN(p).ptr > p
         /\ p = w => EmitINSN(p).ptr = t \/ EmitINSN(p).ptr > w
<1> DEFINE i == Insn(p)
           q == EmitINSN(p).ptr
<1>1. i \in [op : Ops, len : 1 .. 2, target : Nat]
  BY InsnType
<1>2. i.op \in Ops /\ i.len \in 1 .. 2 /\ i.target \in Nat
  BY <1>1
<1>3. p + i.len \in Nat /\ p + i.len > p
  BY <1>2
<1>4. \/ q = p + i.len
      \/ i.op \in {"bra", "bsr", "bcc", "dbcc"} /\ q = i.target
      \/ i.op = "rts"
  <2>1. CASE i.op = "plain"
    BY <2>1, EmitCases DEF Result
  <2>2. CASE i.op \in {"bra", "bsr"}
    <3>1. EmitINSN(p) = EMIT_BRA(p, i)
      BY <2>2, EmitCases
    <3> QED
      BY <2>2, <3>1 DEF EMIT_BRA, Result
  <2>3. CASE i.op = "bcc"
    <3>1. EmitINSN(p) = EMIT_Bcc(p, i)
      BY <2>3, EmitCases
    <3> QED
      BY <2>3, <3>1 DEF EMIT_Bcc, Result
  <2>4. CASE i.op = "dbcc"
    <3> DEFINE before == i.target < entry
    <3>1. EmitINSN(p) = [ptr |-> i.target, stack |-> rstack, stop |-> before]
      BY <2>4, EmitCases DEF EMIT_DBcc, Result
    <3> HIDE DEF before
    <3> QED
      BY <2>4, <3>1
  <2>5. CASE i.op = "rts"
    BY <2>5
  <2>6. CASE i.op = "stop"
    BY <2>6, EmitCases DEF Result
  <2> QED
    BY <1>2, <2>1, <2>2, <2>3, <2>4, <2>5, <2>6 DEF Ops
<1>5. CASE p = w
  <2>1. i = prog[w] /\ JumpsTo(w) = {i.target} /\ i.op \in {"bra", "bsr", "bcc", "dbcc"}
    BY <1>5 DEF Insn, BackTo, JumpsTo
  <2>2. i.target = t
    BY <2>1 DEF BackTo
  <2> QED
    BY <1>2, <1>3, <1>4, <1>5, <2>1, <2>2
<1>6. CASE p # w
  <2>1. CASE p \in Word
    <3>1. i = prog[p] /\ i.op # "rts" /\ \A x \in JumpsTo(p) : x > p
      BY <1>6, <2>1 DEF BackTo, OnlyLoop, Insn
    <3>2. i.op \in {"bra", "bsr", "bcc", "dbcc"} => i.target > p
      BY <3>1 DEF JumpsTo
    <3> QED
      BY <1>2, <1>3, <1>4, <1>6, <3>1, <3>2
  <2>2. CASE p \notin Word
    <3>1. i.op = "stop"
      BY <2>2 DEF Insn
    <3> QED
      BY <1>3, <1>4, <1>6, <3>1
  <2> QED
    BY <2>1, <2>2
<1> QED
  BY <1>5, <1>6

LEMMA LimitStep ==
  ASSUME IInv, Translate, LoopCount >= 2, NEW w \in Word, NEW t \in Word,
         BackTo(w, t), LimitedTo(w, t, Copies(w), ptr, lastRev, maxRev, done)
  PROVE  LimitedTo(w, t, Copies(w)', ptr', lastRev', maxRev', done')
<1> DEFINE e == EmitINSN(ptr)
<1>1. prog \in Program /\ ptr \in Nat /\ maxRev \in Int
  BY DEF IInv, TypeOK
<1>2. PICK q : q = e.ptr
  OBVIOUS
<1>3. /\ q \in Nat /\ (ptr # w => q > ptr) /\ (ptr = w => q = t \/ q > w)
  BY <1>1, <1>2, OnlyWLeadsBack
<1>4. PICK k : k = Copies(w)
  OBVIOUS
<1>5. /\ k \in Nat /\ k <= LoopCount
      /\ ptr <= w => \/ k = 0 /\ lastRev = Nowhere
                     \/ k >= 1 /\ lastRev = t /\ maxRev = LoopCount - k /\ maxRev >= 1
  BY <1>4 DEF LimitedTo, Translate
<1>6. Copies(w)' = IF ptr = w THEN k + 1 ELSE k
  BY <1>4, CopiesNext
<1>7. ptr' = q /\ RevJump(q) /\ (RevBreak(q) => done')
  BY <1>2 DEF Translate
<1>8. w \in Nat /\ t \in Nat /\ t < w /\ t # Nowhere /\ LoopCount \in Nat
  BY Settings DEF BackTo
<1>9. CASE ptr # w
  <2>1. UNCHANGED <<lastRev, maxRev>> /\ Copies(w)' = k /\ q > ptr
    BY <1>1, <1>3, <1>6, <1>7, <1>9 DEF RevJump
  <2> QED
    BY <1>1, <1>3, <1>5, <1>7, <1>8, <2>1 DEF LimitedTo
<1>10. CASE ptr = w
  <2>1. Copies(w)' = k + 1 /\ k + 1 \in Nat /\ k + 1 <= LoopCount
    BY <1>5, <1>6, <1>8, <1>10
  <2>2. CASE q > w
    BY <1>7, <1>8, <2>1, <2>2, <1>3 DEF LimitedTo
  <2>3. CASE q = t /\ k = 0
    <3>1. lastRev' = t /\ maxRev' = LoopCount - 1
      BY <1>5, <1>7, <1>8, <1>10, <2>3 DEF RevJump
    <3> QED
      BY <1>8, <2>1, <2>3, <3>1 DEF LimitedTo
  <2>4. CASE q = t /\ k >= 1
    <3>1. lastRev = t /\ maxRev = LoopCount - k /\ maxRev >= 1
      BY <1>5, <1>8, <1>10, <2>4
    <3>2. lastRev' = t /\ maxRev' = maxRev - 1 /\ (maxRev = 1 => done')
      BY <1>7, <1>8, <1>10, <2>4, <3>1 DEF RevJump, RevBreak
    <3> QED
      BY <1>5, <1>8, <2>1, <3>1, <3>2 DEF LimitedTo
  <2> QED
    BY <1>3, <1>5, <1>10, <2>2, <2>3, <2>4
<1> QED
  BY <1>9, <1>10

LEMMA LimitNext ==
  ASSUME IInv, LimitInv, LoopCount >= 2, [Next]_vars
  PROVE  LimitInv'
<1> SUFFICES ASSUME NEW w \in Word, NEW t \in Word, BackTo(w, t)'
             PROVE  LimitedTo(w, t, Copies(w)', ptr', lastRev', maxRev', done')
  BY DEF LimitInv, Limited
<1>1. prog' = prog
  BY DEF Next, GiveUp, Translate, vars
<1>2. BackTo(w, t)
  BY <1>1 DEF BackTo, OnlyLoop, JumpsTo
<1>3. LimitedTo(w, t, Copies(w), ptr, lastRev, maxRev, done)
  BY <1>2 DEF LimitInv, Limited
<1>4. CASE Translate
  BY <1>2, <1>3, <1>4, LimitStep
<1>5. CASE GiveUp \/ UNCHANGED vars
  <2>1. insns' = insns /\ ptr' = ptr /\ lastRev' = lastRev /\ maxRev' = maxRev
        /\ (done => done')
    BY <1>5 DEF GiveUp, vars, loop
  <2>2. Copies(w)' = Copies(w)
    BY <2>1 DEF Copies
  <2> QED
    BY <1>3, <2>1, <2>2 DEF LimitedTo
<1> QED
  BY <1>4, <1>5 DEF Next

(* LoopCopiesBounded: an instruction that jumps back is translated         *)
(* JCC_LOOP_COUNT times at most.  JCC_LOOP_COUNT = 1 is the exception:     *)
(* max_rev_jumps then starts at 0 and decrementing it never gives 0.       *)
THEOREM LoopsLimited ==
  ASSUME LoopCount >= 2
  PROVE  Spec => []LoopCopiesBounded
<1>1. Init => LimitInv
  <2> SUFFICES ASSUME Init, NEW w \in Word, NEW t \in Word
               PROVE  LimitedTo(w, t, Copies(w), ptr, lastRev, maxRev, done)
    BY DEF LimitInv, Limited
  <2>1. Copies(w) = 0 /\ lastRev = Nowhere
    BY CopiesInit DEF Init
  <2>2. 0 \in Nat /\ 0 <= LoopCount
    BY Settings
  <2> QED
    BY <2>1, <2>2 DEF LimitedTo
<1>2. IInv /\ LimitInv /\ [Next]_vars => LimitInv'
  BY LimitNext
<1>3. IInv /\ LimitInv => LoopCopiesBounded
  <2> SUFFICES ASSUME IInv, LimitInv, NEW w \in Word, OnlyLoop(w), w \notin JumpsTo(w)
               PROVE  Copies(w) <= LoopCount
    BY DEF LoopCopiesBounded
  <2>1. PICK t \in JumpsTo(w) : t <= w
    BY DEF OnlyLoop
  <2>2. prog \in [Word -> [op : Ops, len : 1 .. 2, target : Word]]
    BY TranslateUnitAssumption DEF TranslateUnitAssumption, Ops, IInv, TypeOK
  <2>3. t \in Word /\ t # w
    BY <2>1, <2>2 DEF JumpsTo
  <2>4. t < w
    BY <2>1, <2>3, Settings
  <2> QED
    BY <2>1, <2>3, <2>4 DEF LimitInv, Limited, BackTo, LimitedTo
<1> QED
  BY <1>1, <1>2, <1>3, UnitInv, PTL DEF Spec
=============================================================================
