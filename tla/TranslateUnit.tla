--------------------------- MODULE TranslateUnit ---------------------------
(***************************************************************************)
(* M68K_Translate, the loop that follows guest code from an entry point    *)
(* and puts one instruction after another into a translation unit: which   *)
(* branches it follows, when it stops, how often it unrolls a loop, and    *)
(* the range [m68k_low, m68k_high) it leaves for the checksum.             *)
(*                                                                         *)
(* Addresses count 16-bit words.  An instruction is what the loop needs to *)
(* know of it: how many words it has, whether it branches and where to.    *)
(***************************************************************************)
EXTENDS Integers, FiniteSets, SequencesExt

CONSTANTS
    Word,        \* addresses of the program
    Program,     \* the programs explored, functions from Word
    Depth,       \* JCC_INSN_DEPTH
    LoopCount,   \* JCC_LOOP_COUNT
    InlineRange, \* JCC_INLINE_RANGE
    AutoRange,   \* EMU68_DEF_BRANCH_AUTO_RANGE
    InlineFrom,  \* 0xf00000: BRA and BSR below it are not inlined
    StackSize,   \* RTSTACK_SIZE
    Nowhere      \* last_rev_jump before the first backward jump

ASSUME TranslateUnitAssumption ==
    /\ Word \subseteq Nat
    /\ {Depth, LoopCount, StackSize} \subseteq Nat \ {0}
    /\ {InlineRange, AutoRange, InlineFrom} \subseteq Nat
    /\ Nowhere \notin Nat
    /\ \A p \in Program : p \in [Word ->
          [op : {"plain", "bra", "bsr", "bcc", "dbcc", "rts", "stop"},
           len : 1 .. 2, target : Word]]

VARIABLES
    prog,        \* the guest code
    entry,       \* orig_m68kcodeptr
    ptr,         \* tc_M68kCodePtr
    insns,       \* local_state[].mls_M68kPtr
    low, high,   \* m68k_low and m68k_high
    rstack,      \* ReturnStack
    calls,       \* history: the return addresses of all calls not returned from
    lastRev, maxRev,            \* last_rev_jump, max_rev_jumps
    innerLoop, innerLen, innerLimit,  \* inner_loop and its length and limit
    done         \* the loop was left

loop == <<lastRev, maxRev, innerLoop, innerLen, innerLimit>>
vars == <<prog, entry, ptr, insns, low, high, rstack, calls, loop, done>>

(* Code outside the program ends a unit.                                   *)
Insn(p) == IF p \in Word THEN prog[p] ELSE [op |-> "stop", len |-> 1, target |-> 0]

-----------------------------------------------------------------------------
(* Emitting an instruction: the next instruction to translate, the return  *)
(* stack, and whether the translation breaks off.                          *)

Result(p, st, stop) == [ptr |-> p, stack |-> st, stop |-> stop]

(* Mutants: no limit, and a full stack forgets the new address.            *)
PushUnlimited(st, ret) == Append(st, ret)
PushDropsNew(st, ret)  == IF Len(st) >= StackSize THEN st ELSE Append(st, ret)

(* M68K_PushReturnAddress: a full stack forgets its oldest address.        *)
Push(st, ret) == Append(IF Len(st) >= StackSize THEN Tail(st) ELSE st, ret)

Dist(x, y) == IF x < y THEN y - x ELSE x - y

Inlined(p, i) == p + i.len >= InlineFrom /\ Dist(p + 1, i.target) <= InlineRange

EMIT_BRA(p, i) ==
    LET next == p + i.len
    IN  IF ~Inlined(p, i) THEN Result(next, rstack, TRUE)
        ELSE Result(i.target, IF i.op = "bsr" THEN Push(rstack, next) ELSE rstack, FALSE)

(* A short branch backwards is followed, any other falls through.          *)
Taken(p, i) == i.target < p + i.len /\ p + i.len - i.target < AutoRange

EMIT_Bcc(p, i) == Result(IF Taken(p, i) THEN i.target ELSE p + i.len, rstack, FALSE)

(* Every branch is followed; one before the entry point ends the unit.     *)
EMIT_DBcc(p, i) == Result(i.target, rstack, i.target < entry)

EMIT_RTS(p, i) == IF rstack # <<>> THEN Result(Last(rstack), Front(rstack), FALSE)
                                   ELSE Result(p + i.len, rstack, TRUE)

EmitINSN(p) ==
    LET i == Insn(p)
    IN CASE i.op = "plain"          -> Result(p + i.len, rstack, FALSE)
         [] i.op \in {"bra", "bsr"} -> EMIT_BRA(p, i)
         [] i.op = "bcc"            -> EMIT_Bcc(p, i)
         [] i.op = "dbcc"           -> EMIT_DBcc(p, i)
         [] i.op = "rts"            -> EMIT_RTS(p, i)
         [] i.op = "stop"           -> Result(p + i.len, rstack, TRUE)

-----------------------------------------------------------------------------
Init ==
    /\ prog \in Program /\ entry \in Word
    /\ ptr = entry /\ insns = <<>> /\ low = entry /\ high = entry + 2
    /\ rstack = <<>> /\ calls = <<>>
    /\ lastRev = Nowhere /\ maxRev = 0
    /\ innerLoop = FALSE /\ innerLen = 0 /\ innerLimit = 0
    /\ done = FALSE

(* After a jump back into the unit, give up when what is left of the depth *)
(* has no room for the loop body.                                          *)
NoRoomForLoop ==
    /\ insns # <<>> /\ ptr < Last(insns)
    /\ \E f \in 2 .. Len(insns) :
          /\ insns[f] = ptr /\ \A g \in f + 1 .. Len(insns) : insns[g] # ptr
          /\ Len(insns) - f > Depth - Len(insns)

GiveUp ==
    /\ ~done /\ (Len(insns) >= Depth \/ NoRoomForLoop)
    /\ done' = TRUE
    /\ innerLoop' = (innerLoop /\ ptr = entry)
    /\ UNCHANGED <<prog, entry, ptr, insns, low, high, rstack, calls,
                   lastRev, maxRev, innerLen, innerLimit>>

Lower(x, y)  == IF y < x THEN y ELSE x

(* Mutant: off by one.                                                     *)
HigherByTwo(x, y) == IF y > x + 1 THEN y ELSE x

Higher(x, y) == IF y > x THEN y ELSE x

(* Mutant: only the depth limits the copies.                               *)
CapacityOfDepth(n) == Depth \div n

(* How many copies of a loop of n instructions fit into the unit.          *)
Capacity(n) == Lower(Depth \div n, LoopCount)

(* The limit on jumps back to the same target.                             *)
RevJump(to) ==
    IF ptr > to
      THEN IF lastRev = to THEN maxRev' = maxRev - 1 /\ UNCHANGED lastRev
                           ELSE lastRev' = to /\ maxRev' = LoopCount - 1
      ELSE UNCHANGED <<lastRev, maxRev>>

(* Mutant: the count is tested before it is decremented.                   *)
RevBreakLate(to) == ptr > to /\ lastRev = to /\ maxRev = 0

RevBreak(to) == ptr > to /\ lastRev = to /\ maxRev = 1

(* The limit on copies of a loop that starts at the entry point.           *)
EntryReached(n) ==
    IF innerLen = 0 THEN innerLen' = n /\ innerLimit' = Capacity(n) - 1
                    ELSE innerLimit' = innerLimit - 1 /\ UNCHANGED innerLen

EntryBreak(n) == IF innerLen = 0 THEN Capacity(n) <= 1 ELSE innerLimit = 1

Translate ==
    LET e == EmitINSN(ptr)
        n == Len(insns) + 1
        again == ~e.stop /\ ~RevBreak(e.ptr) /\ e.ptr = entry
    IN
    /\ ~done /\ Len(insns) < Depth /\ ~NoRoomForLoop
    /\ insns' = Append(insns, ptr)
    /\ ptr' = e.ptr /\ rstack' = e.stack
    /\ low' = Lower(low, e.ptr) /\ high' = Higher(high, e.ptr)
    /\ calls' = CASE ~e.stop /\ Insn(ptr).op = "bsr" -> Append(calls, ptr + Insn(ptr).len)
                  [] ~e.stop /\ Insn(ptr).op = "rts" -> Front(calls)
                  [] OTHER                            -> calls
    /\ RevJump(e.ptr)
    /\ IF again THEN EntryReached(n) ELSE UNCHANGED <<innerLen, innerLimit>>
    /\ done' = (e.stop \/ RevBreak(e.ptr) \/ (again /\ EntryBreak(n)))
    /\ innerLoop' = ((innerLoop \/ again) /\ (done' => e.ptr = entry))
    /\ UNCHANGED <<prog, entry>>

Next == GiveUp \/ Translate

Spec == Init /\ [][Next]_vars

-----------------------------------------------------------------------------
(* Where the translation went after its i-th instruction.                  *)
After(i) == IF i < Len(insns) THEN insns[i + 1] ELSE ptr
Fall(i)  == insns[i] + Insn(insns[i]).len

InSpan(i) == low <= insns[i] /\ Fall(i) <= high

TypeOK ==
    /\ prog \in Program /\ entry \in Word /\ ptr \in Nat
    /\ insns \in Seq(Nat) /\ low \in Nat /\ high \in Nat
    /\ rstack \in Seq(Nat) /\ Len(rstack) <= StackSize
    /\ calls \in Seq(Nat)
    /\ lastRev \in Nat \cup {Nowhere} /\ maxRev \in Int
    /\ innerLoop \in BOOLEAN /\ innerLen \in 0 .. Depth /\ innerLimit \in 0 .. LoopCount
    /\ done \in BOOLEAN

(* A word that was translated and not checksummed can change without the   *)
(* unit being thrown away.  Every instruction the translation passed       *)
(* through to the next one is in [m68k_low, m68k_high).                    *)
SpanCoversStraightCode ==
    \A i \in 1 .. Len(insns) : After(i) = Fall(i) => InSpan(i)

(* An inlined RTS goes where the matching inlined BSR came from, also when *)
(* the calls were nested deeper than the return stack.                     *)
ReturnStackIsSuffix ==
    /\ Len(rstack) <= Len(calls)
    /\ rstack = SubSeq(calls, Len(calls) - Len(rstack) + 1, Len(calls))

(* A unit that ends with a jump to its own start consists of whole copies  *)
(* of the loop, JCC_LOOP_COUNT of them at most.                            *)
LoopsBackWhole ==
    done /\ innerLoop =>
       /\ Len(insns) % innerLen = 0 /\ Len(insns) <= innerLen * LoopCount
       /\ \A i \in 1 .. Len(insns) - innerLen : insns[i + innerLen] = insns[i]

(* A loop is translated JCC_LOOP_COUNT times at most.  Stated for programs *)
(* in which one instruction alone can jump backwards: two loops undo each  *)
(* other's count.                                                          *)
JumpsTo(w) == IF prog[w].op \in {"bra", "bsr", "bcc", "dbcc"} THEN {prog[w].target} ELSE {}

Copies(w) == Cardinality({i \in 1 .. Len(insns) : insns[i] = w})

OnlyLoop(w) ==
    /\ \E t \in JumpsTo(w) : t <= w
    /\ \A v \in Word \ {w} : prog[v].op # "rts" /\ \A t \in JumpsTo(v) : t > v

LoopCopiesBounded ==
    \A w \in Word : OnlyLoop(w) /\ w \notin JumpsTo(w) => Copies(w) <= LoopCount
=============================================================================
