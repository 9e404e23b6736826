-------------------------- MODULE InterruptsProofs --------------------------
(***************************************************************************)
(* Proofs about Interrupts, for every number of stray interrupts and every *)
(* spurious vector the firmware may have left in the APIC.                 *)
(***************************************************************************)
EXTENDS Interrupts, FiniteSetTheorems, SequenceTheorems, TLAPS

(* What is on the stack: the words of a frame count once. *)
Word == [frame : BOOLEAN, intr : BOOLEAN]

(* The words above its frame that the call c has on the stack: the error code
   of the processor, and what its stub pushed once it has run. *)
Above(c) == (IF c.vector \in HasErr THEN 1 ELSE 0)
            + (IF c.at = "stub" THEN 0 ELSE Stub(c.vector).push)

(* How far boot() is, and what that says of the descriptor table and the APIC:
   the gates are there before the APIC is enabled, and both before sti. *)
StageInv ==
    /\ gates = IF stage = "start" THEN {} ELSE x86_idt_init
    /\ apic.enabled => stage # "start" /\ (apic.sv \div 32) % 2 = 1
    /\ irr # {} => apic.enabled
    /\ apic.timer => apic.enabled
    /\ intr => stage = "loop" /\ calls = <<>>

(* Interrupts nest at most twice, and the inner one is the NMI. *)
CallsInv ==
    /\ Len(calls) <= 2
    /\ Len(calls) = 2 => calls[1].vector # X86_NMI /\ calls[2].vector = X86_NMI
    /\ calls # <<>> => stage # "start"
    /\ calls # <<>> /\ Cur.vector = X86_NMI => nmiBlocked
    /\ \A i \in DOMAIN calls : calls[i].vector \in HasErr => hurt

(* The stack holds one frame for each call, with the words of that call above
   it, and nothing else. *)
StackInv ==
    /\ stack \in Seq(Word)
    /\ calls = <<>> => stack = <<>>
    /\ Len(calls) = 1 => Len(stack) = 1 + Above(calls[1])
    /\ Len(calls) = 2 => Len(stack) = 2 + Above(calls[1]) + Above(calls[2])
    /\ \A i \in 1..Len(stack) :
         stack[i].frame <=> i = 1 \/ (Len(calls) = 2 /\ i = 2 + Above(calls[1]))
    /\ calls # <<>> => (stack[1].intr => stage = "loop")
    /\ Len(calls) = 2 => ~stack[2 + Above(calls[1])].intr

(* Only what the outermost call was taken for is in service, and not once
   dispatch() acknowledged it. *)
ServiceInv ==
    Running => \/ isr = {}
               \/ calls # <<>> /\ isr = {calls[1].vector} /\ calls[1].at # "return"

LostInv == stopped = "lost" => hurt

IInv == TypeOK /\ StageInv /\ CallsInv /\ StackInv /\ ServiceInv /\ LostInv
-----------------------------------------------------------------------------
(* What is left of a sequence that is cut after its first element. *)
LEMMA FirstOnly ==
    ASSUME NEW T, NEW s \in Seq(T), Len(s) = 2
    PROVE  /\ SubSeq(s, 1, 1) \in Seq(T) /\ Len(SubSeq(s, 1, 1)) = 1
           /\ SubSeq(s, 1, 1)[1] = s[1]
<1>1. /\ SubSeq(s, 1, 1) \in Seq(T)
      /\ Len(SubSeq(s, 1, 1)) = IF 1 <= 1 THEN 1 - 1 + 1 ELSE 0
      /\ \A i \in 1..(1 - 1 + 1) : SubSeq(s, 1, 1)[i] = s[1 + i - 1]
  <2>1. \A i \in 1..1 : s[i] \in T
    OBVIOUS
  <2> QED BY <2>1, SubSeqProperties
<1>2. 1 - 1 + 1 = 1 /\ 1 \in 1..1
  OBVIOUS
<1> QED BY <1>1, <1>2

(* The APIC delivers a vector that was requested. *)
LEMMA MaxRequest ==
    ASSUME NEW T, T \subseteq {IRQ_TIMER, IRQ_ERROR}, T # {}
    PROVE  Max(T) \in T /\ Max(T) \in {IRQ_TIMER, IRQ_ERROR}
<1>1. \E x \in T : \A y \in T : x >= y
  <2>1. CASE IRQ_ERROR \in T
    BY <2>1 DEF IRQ_TIMER, IRQ_ERROR
  <2>2. CASE IRQ_ERROR \notin T
    <3>1. T = {IRQ_TIMER}
      BY <2>2
    <3> QED BY <3>1 DEF IRQ_TIMER
  <2> QED BY <2>1, <2>2
<1>2. Max(T) \in T
  BY <1>1 DEF Max
<1> QED BY <1>2

(* LocalApic::eoi() retires the only vector that is in service. *)
LEMMA RetiredOne ==
    ASSUME NEW v \in Nat, isr = {v}
    PROVE  isr \ Retired = {}
<1>1. Max({v}) = v
  BY DEF Max
<1> QED BY <1>1 DEF Retired

(* With a call there is a last one. *)
LEMMA EmptyLen ==
    ASSUME NEW s
    PROVE  s = <<>> => Len(s) = 0
OBVIOUS

(* The words of an error code or of a stub are not frames. *)
LEMMA WordsType ==
    ASSUME NEW n \in Nat
    PROVE  /\ Words(n) \in Seq(Word) /\ Len(Words(n)) = n
           /\ \A i \in 1..n : ~Words(n)[i].frame
BY DEF Words, Word

(* The stack t has n words more than s. *)
Grown(s, t, n) ==
    /\ t \in Seq(Word) /\ Len(t) = Len(s) + n
    /\ \A i \in 1..Len(s) : t[i] = s[i]
    /\ \A i \in Len(s) + 1 .. Len(s) + n : ~t[i].frame

(* A stub pushes words on top of what is there. *)
LEMMA PushWords ==
    ASSUME NEW s, NEW t, NEW n \in Nat, s \in Seq(Word), t = s \o Words(n)
    PROVE  Grown(s, t, n)
<1> USE DEF Grown
<1> DEFINE w == Words(n)
<1>1. w \in Seq(Word) /\ Len(w) = n /\ \A i \in 1..n : ~w[i].frame
  BY WordsType
<1> HIDE DEF w
<1>2. /\ s \o w \in Seq(Word) /\ Len(s \o w) = Len(s) + Len(w)
      /\ \A i \in 1..Len(s) + Len(w) :
           (s \o w)[i] = IF i <= Len(s) THEN s[i] ELSE w[i - Len(s)]
  BY <1>1, ConcatProperties
<1> QED BY <1>1, <1>2 DEF w

(* The stack t has the frame f and n words more than s. *)
Pushed(s, t, f, n) ==
    /\ t \in Seq(Word) /\ Len(t) = Len(s) + 1 + n
    /\ \A i \in 1..Len(s) : t[i] = s[i]
    /\ t[Len(s) + 1] = f
    /\ \A i \in Len(s) + 2 .. Len(t) : ~t[i].frame

(* The processor pushes a frame and, for some exceptions, an error code. *)
LEMMA PushFrame ==
    ASSUME NEW s, NEW t, NEW f \in Word, NEW n \in Nat,
           s \in Seq(Word), t = (s \o <<f>>) \o Words(n)
    PROVE  Pushed(s, t, f, n)
<1> USE DEF Pushed
<1> DEFINE u == s \o <<f>>
<1>1. u \in Seq(Word) /\ Len(u) = Len(s) + 1
  BY ConcatProperties
<1>2. (\A i \in 1..Len(s) : u[i] = s[i]) /\ u[Len(s) + 1] = f
  BY ConcatProperties
<1>3. t = u \o Words(n)
  OBVIOUS
<1> HIDE DEF u
<1>4. /\ t \in Seq(Word) /\ Len(t) = Len(u) + n
      /\ \A i \in 1..Len(u) : t[i] = u[i]
      /\ \A i \in Len(u) + 1 .. Len(u) + n : ~t[i].frame
  <2>1. Grown(u, t, n)
    BY <1>1, <1>3, PushWords
  <2> QED BY <2>1 DEF Grown
<1>5. Len(s) \in Nat
  OBVIOUS
<1>6. t[Len(s) + 1] = f /\ \A i \in 1..Len(s) : t[i] = s[i]
  BY <1>1, <1>2, <1>4, <1>5
<1> QED BY <1>1, <1>4, <1>5, <1>6
-----------------------------------------------------------------------------
Call == [vector : 0..59, at : Steps]
CpuType ==
    /\ calls \in Seq(Call) /\ intr \in BOOLEAN /\ nmiBlocked \in BOOLEAN /\ hurt \in BOOLEAN
    /\ stopped \in {"no", "aborted", "lost"}

(* Entering an interrupt, from boot() with the flag set or, for the NMI, from
   anywhere, keeps the calls apart and the stack in shape. *)
LEMMA EnterKeeps ==
    ASSUME TypeOK, StageInv, CallsInv, StackInv, LostInv, Running,
           NEW v \in 0..255, Enter(v), UNCHANGED <<machine, stage>>,
           IF v = X86_NMI THEN ~nmiBlocked ELSE intr
    PROVE  CpuType' /\ CallsInv' /\ StackInv' /\ LostInv' /\ (intr' => intr /\ calls' = calls)
<1>0. UNCHANGED <<platform, gates, stage>>
  BY DEF machine
<1>1. CASE Entered(v) \notin gates
  <2>1. stopped' = "lost" /\ hurt' = TRUE /\ UNCHANGED <<intr, nmiBlocked, calls, stack>>
    BY <1>1 DEF Enter, cpu
  <2> QED BY <2>1, <1>0 DEF TypeOK, CpuType, Call, CallsInv, StackInv, LostInv, Above, Stub, Cur,
                 x86_isr, x86_64_isr
<1>2. CASE Entered(v) \in gates
  <2>1. gates = 0..59 /\ stage # "start" /\ Entered(v) \in 0..59
    BY <1>2 DEF StageInv, x86_idt_init
  <2>2. PICK e \in 0..59 : e = Entered(v)
    BY <2>1
  <2>3. PICK c \in Call : c.vector = e /\ c.at = "stub" /\ c = [vector |-> e, at |-> "stub"]
    <3>1. [vector |-> e, at |-> "stub"] \in Call
      BY DEF Call, Steps
    <3> QED BY <3>1
  <2>4. PICK k \in {0, 1} : k = IF e \in HasErr THEN 1 ELSE 0
    OBVIOUS
  <2>5. /\ stack' = stack \o <<Frame>> \o Words(k)
        /\ calls' = Append(calls, c)
        /\ intr' = FALSE
        /\ nmiBlocked' = (nmiBlocked \/ v = X86_NMI)
        /\ hurt' = (hurt \/ e \in HasErr)
        /\ UNCHANGED stopped
    BY <1>2, <2>2, <2>3, <2>4 DEF Enter, GateClearsFlag
  <2>6. e = X86_NMI <=> v = X86_NMI
    BY <2>1, <2>2 DEF Entered, X86_NMI, X86_GPF
  <2>7. calls \in Seq(Call) /\ Len(calls) \in Nat /\ (calls = <<>> <=> Len(calls) = 0)
    BY DEF TypeOK, Call
  <2>8. Len(calls) # 0 => Len(calls) = 1 /\ v = X86_NMI /\ calls[1].vector # X86_NMI
    <3> SUFFICES ASSUME Len(calls) # 0
                 PROVE  Len(calls) = 1 /\ v = X86_NMI /\ calls[1].vector # X86_NMI
      OBVIOUS
    <3>1. v = X86_NMI /\ ~nmiBlocked
      BY <2>7 DEF StageInv
    <3>2. calls[Len(calls)].vector # X86_NMI
      BY <3>1, <2>7 DEF CallsInv, Cur
    <3>3. Len(calls) # 2
      BY <3>2 DEF CallsInv
    <3>4. Len(calls) <= 2
      BY DEF CallsInv
    <3>5. Len(calls) = 1
      <4>1. PICK n \in Nat : n = Len(calls)
        BY <2>7, Zenon
      <4>2. n # 0 /\ n # 2 /\ n <= 2
        BY <4>1, <3>3, <3>4, Zenon
      <4>3. n = 1
        BY <4>2
      <4> QED BY <4>1, <4>3, Zenon
    <3> QED BY <3>1, <3>2, <3>5
  <2>9. /\ calls' \in Seq(Call) /\ Len(calls') = Len(calls) + 1
        /\ \A i \in 1..Len(calls) : calls'[i] = calls[i]
        /\ calls'[Len(calls) + 1] = c
    BY <2>5, <2>7
  <2>10. PICK f \in Word : f = Frame /\ f.frame = TRUE /\ f.intr = intr
    <3>1. intr \in BOOLEAN
      BY DEF TypeOK
    <3>2. Frame \in Word /\ Frame.frame = TRUE /\ Frame.intr = intr
      BY <3>1 DEF Frame, Word
    <3> QED BY <3>2, Zenon
  <2>11. /\ stack' \in Seq(Word) /\ Len(stack') = Len(stack) + 1 + k
         /\ \A i \in 1..Len(stack) : stack'[i] = stack[i]
         /\ stack'[Len(stack) + 1] = f
         /\ \A i \in Len(stack) + 2 .. Len(stack') : ~stack'[i].frame
    <3>1. stack \in Seq(Word) /\ stack' = stack \o <<f>> \o Words(k) /\ k \in Nat /\ f \in Word
      BY <2>5, <2>10 DEF StackInv
    <3>2. Pushed(stack, stack', f, k)
      BY <3>1, PushFrame
    <3> QED BY <3>2 DEF Pushed
  <2>12. CpuType'
    BY <2>5, <2>9 DEF CpuType, TypeOK
  <2>13. LostInv'
    BY <2>5 DEF LostInv, Running
  <2>14. Above(c)' = k
    BY <2>3, <2>4 DEF Above
  <2>15. CASE calls = <<>>
    <3>1. Len(calls) = 0 /\ stack = <<>> /\ Len(stack) = 0
      BY <2>15 DEF StackInv
    <3>2. calls'[1] = c /\ Len(calls') = 1 /\ calls' # <<>> /\ DOMAIN calls' = {1}
      <4>1. calls'[1] = c /\ Len(calls') = 1
        BY <3>1, <2>9
      <4>2. calls' \in Seq(Call)
        BY <2>9
      <4>3. calls' # <<>>
        BY <4>1, EmptyLen
      <4>4. DOMAIN calls' = 1..1
        BY <4>1, <4>2, LenProperties
      <4> QED BY <4>1, <4>3, <4>4
    <3>3. CallsInv'
      <4>1. Cur' = c
        BY <3>2 DEF Cur
      <4>2. \A i \in DOMAIN calls' : calls'[i].vector \in HasErr => hurt'
        BY <3>2, <2>3, <2>5
      <4>3. (Cur.vector = X86_NMI => nmiBlocked)'
        BY <4>1, <2>3, <2>5, <2>6
      <4>4. (Len(calls) <= 2)' /\ Len(calls') # 2
        BY <3>2
      <4>5. stage' # "start"
        BY <2>1, <1>0
      <4> QED BY <4>2, <4>3, <4>4, <4>5 DEF CallsInv
    <3>4. intr => stage = "loop"
      BY DEF StageInv
    <3>5. Len(stack') = 1 + k /\ stack'[1] = f /\ \A i \in 2..Len(stack') : ~stack'[i].frame
      BY <3>1, <2>11
    <3>6. \A i \in 1..Len(stack') : stack'[i].frame <=> i = 1
      BY <3>5, <2>10
    <3>7. StackInv'
      BY <3>2, <3>4, <3>5, <3>6, <2>10, <2>11, <2>14, <1>0 DEF StackInv
    <3> QED BY <3>3, <3>7, <2>5, <2>12, <2>13
  <2>16. CASE calls # <<>>
    <3>1. Len(calls) = 1 /\ v = X86_NMI /\ calls[1].vector # X86_NMI
      BY <2>16, <2>7, <2>8
    <3>2. calls'[1] = calls[1] /\ calls'[2] = c /\ Len(calls') = 2 /\ calls' # <<>> /\ Cur' = c
      BY <3>1, <2>9 DEF Cur
    <3>3. DOMAIN calls' = {1, 2} /\ DOMAIN calls = {1}
      BY <3>1, <3>2, <2>7, <2>9
    <3>4. \A i \in DOMAIN calls' : calls'[i].vector \in HasErr => hurt'
      <4>1. calls[1].vector \in HasErr => hurt
        BY <3>3 DEF CallsInv
      <4> QED BY <4>1, <3>2, <3>3, <2>3, <2>5
    <3>5. CallsInv'
      <4>1. (Cur.vector = X86_NMI => nmiBlocked)'
        BY <3>2, <2>3, <2>5, <2>6
      <4>2. (Len(calls) <= 2)'
        BY <3>2
      <4>3. stage' # "start"
        BY <2>1, <1>0
      <4>4. (calls[1].vector # X86_NMI /\ calls[2].vector = X86_NMI)'
        BY <3>1, <3>2, <2>3, <2>6
      <4> QED BY <4>1, <4>2, <4>3, <4>4, <3>4 DEF CallsInv
    <3>6. ~intr
      BY <2>16 DEF StageInv
    <3>7. PICK a \in Nat : a = Above(calls[1])
      BY DEF Above, Stub, x86_isr, x86_64_isr
    <3>8. Len(stack) = 1 + a /\ Above(calls[1])' = a
      <4>1. Len(stack) = 1 + a
        BY <3>1, <3>7 DEF StackInv
      <4>2. Above(calls[1])' = a
        BY <3>2, <3>7, <1>0 DEF Above, Stub, x86_isr, x86_64_isr
      <4> QED BY <4>1, <4>2
    <3>9. Len(stack') = 2 + a + k /\ stack'[2 + a] = f /\ stack'[1] = stack[1]
      BY <3>8, <2>11
    <3>10. \A i \in 1..Len(stack) : stack[i].frame <=> i = 1
      BY <3>1 DEF StackInv
    <3>11. \A i \in 1..Len(stack') : stack'[i].frame <=> i = 1 \/ i = 2 + a
      BY <3>8, <3>9, <3>10, <2>10, <2>11
    <3>12. stack[1].intr => stage = "loop"
      BY <2>16 DEF StackInv
    <3>13. Above(calls[2])' = k
      BY <3>2, <2>14
    <3>14. StackInv'
      BY <3>2, <3>6, <3>8, <3>9, <3>11, <3>12, <3>13, <2>10, <2>11, <1>0 DEF StackInv
    <3> QED BY <3>5, <3>14, <2>5, <2>12, <2>13
  <2> QED BY <2>15, <2>16
<1> QED BY <1>1, <1>2
-----------------------------------------------------------------------------
(* The innermost call is at the step s, and nothing else of the calls changed. *)
Moved(s) ==
    /\ calls' \in Seq(Call) /\ Len(calls') = Len(calls)
    /\ \A i \in 1..Len(calls) :
         /\ calls'[i].vector = calls[i].vector
         /\ calls'[i].at = IF i = Len(calls) THEN s ELSE calls[i].at

(* GoTo() does just that. *)
LEMMA GoToMoves ==
    ASSUME TypeOK, calls # <<>>, NEW s \in Steps, GoTo(s)
    PROVE  Moved(s)
<1>1. calls \in Seq(Call) /\ Len(calls) \in 1..Len(calls)
  BY DEF TypeOK, Call
<1>2. PICK n \in Nat : n = Len(calls) /\ n \in 1..n
  BY <1>1
<1>3. calls \in [1..n -> Call] /\ calls' = [calls EXCEPT ![n].at = s]
  BY <1>1, <1>2 DEF GoTo
<1>4. calls' \in [1..n -> Call]
  BY <1>2, <1>3 DEF Call
<1>5. calls' \in Seq(Call) /\ Len(calls') = n
  BY <1>4
<1>6. \A i \in 1..n : /\ calls'[i].vector = calls[i].vector
                      /\ calls'[i].at = IF i = n THEN s ELSE calls[i].at
  BY <1>2, <1>3 DEF Call
<1> QED BY <1>2, <1>5, <1>6 DEF Moved

(* How many words a call has above its frame. *)
LEMMA AboveNat ==
    ASSUME NEW c
    PROVE  Above(c) \in Nat
BY DEF Above, Stub, x86_isr, x86_64_isr

(* The number of calls is 0, 1 or 2. *)
LEMMA CallsCount ==
    ASSUME TypeOK, CallsInv
    PROVE  /\ calls \in Seq(Call)
           /\ calls = <<>> => Len(calls) = 0 /\ DOMAIN calls = {}
           /\ calls # <<>> => \/ Len(calls) = 1 /\ DOMAIN calls = {1} /\ 1..Len(calls) = {1}
                              \/ Len(calls) = 2 /\ DOMAIN calls = {1, 2} /\ 1..Len(calls) = {1, 2}
<1>1. calls \in Seq(Call)
  BY DEF TypeOK, Call
<1>2. PICK n \in Nat : n = Len(calls) /\ DOMAIN calls = 1..n
  BY <1>1
<1>3. n <= 2
  BY <1>2 DEF CallsInv
<1>4. n = 0 <=> calls = <<>>
  BY <1>1, <1>2
<1>5. n = 0 \/ n = 1 \/ n = 2
  BY <1>3
<1>6. 1..0 = {} /\ 1..1 = {1} /\ 1..2 = {1, 2}
  OBVIOUS
<1> QED BY <1>1, <1>2, <1>4, <1>5, <1>6

(* Moving on past the stub leaves the stack in shape. *)
LEMMA MovedKeeps ==
    ASSUME TypeOK, CallsInv, StackInv, calls # <<>>, NEW s \in Steps, Moved(s),
           UNCHANGED <<platform, stage, stack, nmiBlocked, hurt>>,
           Cur.at # "stub", s # "stub"
    PROVE  CallsInv' /\ StackInv' /\ calls' # <<>> /\ calls' \in Seq(Call)
<1>1. calls' \in Seq(Call) /\ Len(calls') = Len(calls) /\ DOMAIN calls' = DOMAIN calls /\ calls' # <<>>
  BY CallsCount, EmptyLen DEF Moved
<1>2. \A i \in 1..Len(calls) : calls'[i].vector = calls[i].vector
  BY DEF Moved
<1>3. \A i \in 1..Len(calls) : calls'[i].at = "stub" <=> calls[i].at = "stub"
  BY DEF Moved, Cur
<1>4. ASSUME NEW i \in 1..Len(calls)
      PROVE  Above(calls[i])' = Above(calls[i])
  BY <1>2, <1>3 DEF Above, Stub, x86_isr, x86_64_isr
<1>5. CASE Len(calls) = 1 /\ DOMAIN calls = {1} /\ 1..Len(calls) = {1}
  <2>1. CallsInv'
    BY <1>1, <1>2, <1>5 DEF CallsInv, Cur
  <2>2. Above(calls[1])' = Above(calls[1])
    BY <1>4, <1>5
  <2>3. StackInv'
    BY <2>2, <1>1, <1>5 DEF StackInv
  <2> QED BY <2>1, <2>3, <1>1
<1>6. CASE Len(calls) = 2 /\ DOMAIN calls = {1, 2} /\ 1..Len(calls) = {1, 2}
  <2>1. CallsInv'
    BY <1>1, <1>2, <1>6 DEF CallsInv, Cur
  <2>2. Above(calls[1])' = Above(calls[1]) /\ Above(calls[2])' = Above(calls[2])
    BY <1>4, <1>6
  <2>3. StackInv'
    BY <2>2, <1>1, <1>6 DEF StackInv
  <2> QED BY <2>1, <2>3, <1>1
<1> QED BY <1>5, <1>6, CallsCount

(* What a stub pushes it drops, so that the words above the frame of a call
   that returns are those of the error code. *)
LEMMA StubBalanced ==
    ASSUME NEW c
    PROVE  /\ Stub(c.vector).push \in Nat /\ Stub(c.vector).drop = Stub(c.vector).push
           /\ c.at # "stub" =>
                Above(c) = (IF c.vector \in HasErr THEN 1 ELSE 0) + Stub(c.vector).push
           /\ c.at = "stub" => Above(c) = IF c.vector \in HasErr THEN 1 ELSE 0
BY DEF Above, Stub, x86_isr, x86_64_isr

(* The stub runs: its words are on the stack when dispatch() is entered. *)
LEMMA StubKeeps ==
    ASSUME TypeOK, CallsInv, StackInv, calls # <<>>, NEW s \in Steps, Moved(s),
           stack' = stack \o Words(Stub(Cur.vector).push),
           UNCHANGED <<platform, stage, nmiBlocked, hurt>>,
           Cur.at = "stub", s # "stub"
    PROVE  CallsInv' /\ StackInv' /\ calls' # <<>> /\ calls' \in Seq(Call)
<1>1. calls' \in Seq(Call) /\ Len(calls') = Len(calls) /\ DOMAIN calls' = DOMAIN calls /\ calls' # <<>>
  BY CallsCount, EmptyLen DEF Moved
<1>2. \A i \in 1..Len(calls) : calls'[i].vector = calls[i].vector
  BY DEF Moved
<1>3. PICK p \in Nat : p = Stub(Cur.vector).push
  BY StubBalanced
<1>4. PICK m \in Nat : m = Len(stack)
  BY DEF StackInv
<1>5. /\ stack' \in Seq(Word) /\ Len(stack') = m + p
      /\ \A i \in 1..m : stack'[i] = stack[i]
      /\ \A i \in m + 1 .. m + p : ~stack'[i].frame
  <2>1. stack \in Seq(Word) /\ stack' = stack \o Words(p)
    BY <1>3 DEF StackInv
  <2>2. Grown(stack, stack', p)
    BY <2>1, PushWords
  <2> QED BY <2>2, <1>4 DEF Grown
<1>6. CASE Len(calls) = 1 /\ DOMAIN calls = {1} /\ 1..Len(calls) = {1}
  <2>1. CallsInv'
    BY <1>1, <1>2, <1>6 DEF CallsInv, Cur
  <2>2. PICK a \in Nat : a = Above(calls[1])
    BY AboveNat
  <2>3. calls'[1].vector = calls[1].vector /\ calls'[1].at = s /\ Cur = calls[1]
    BY <1>6 DEF Moved, Cur
  <2>4. Above(calls[1])' = a + p
    BY <2>2, <2>3, <1>3 DEF Above, Stub, x86_isr, x86_64_isr
  <2>5. m = 1 + a
    BY <2>2, <1>4, <1>6 DEF StackInv
  <2>6. \A i \in 1..m : stack[i].frame <=> i = 1
    BY <1>4, <1>6 DEF StackInv
  <2>7. \A i \in 1..(m + p) : stack'[i].frame <=> i = 1
    BY <2>5, <2>6, <1>5
  <2>8. stack'[1] = stack[1] /\ Len(stack') = 1 + (a + p)
    BY <2>5, <1>5
  <2>9. (stack[1].intr => stage = "loop")'
    BY <2>8 DEF StackInv
  <2>10. StackInv'
    BY <2>4, <2>7, <2>8, <2>9, <1>1, <1>5, <1>6 DEF StackInv
  <2> QED BY <2>1, <2>10, <1>1
<1>7. CASE Len(calls) = 2 /\ DOMAIN calls = {1, 2} /\ 1..Len(calls) = {1, 2}
  <2>1. CallsInv'
    BY <1>1, <1>2, <1>7 DEF CallsInv, Cur
  <2>2. PICK a \in Nat : a = Above(calls[1])
    BY AboveNat
  <2>3. PICK b \in Nat : b = Above(calls[2])
    BY AboveNat
  <2>4. /\ calls'[2].vector = calls[2].vector /\ calls'[2].at = s /\ Cur = calls[2]
        /\ calls'[1].vector = calls[1].vector /\ calls'[1].at = calls[1].at
    BY <1>7 DEF Moved, Cur
  <2>5. Above(calls[1])' = a
    BY <2>2, <2>4 DEF Above, Stub, x86_isr, x86_64_isr
  <2>6. Above(calls[2])' = b + p
    BY <2>3, <2>4, <1>3 DEF Above, Stub, x86_isr, x86_64_isr
  <2>7. m = 2 + a + b
    BY <2>2, <2>3, <1>4, <1>7 DEF StackInv
  <2>8. \A i \in 1..m : stack[i].frame <=> i = 1 \/ i = 2 + a
    BY <2>2, <1>4, <1>7 DEF StackInv
  <2>9. \A i \in 1..(m + p) : stack'[i].frame <=> i = 1 \/ i = 2 + a
    BY <2>7, <2>8, <1>5
  <2>10. stack'[1] = stack[1] /\ stack'[2 + a] = stack[2 + a] /\ Len(stack') = 2 + a + (b + p)
    BY <2>7, <1>5
  <2>11. (stack[1].intr => stage = "loop")'
    BY <2>10 DEF StackInv
  <2>12. ~stack'[2 + a].intr
    BY <2>2, <2>10, <1>7 DEF StackInv
  <2>13. StackInv'
    <3>1. (\A i \in 1..Len(stack) :
             stack[i].frame <=> i = 1 \/ (Len(calls) = 2 /\ i = 2 + Above(calls[1])))'
      BY <2>5, <2>9, <1>1, <1>5, <1>7
    <3>2. (Len(stack) = 2 + Above(calls[1]) + Above(calls[2]))'
      BY <2>5, <2>6, <2>10
    <3>3. (~stack[2 + Above(calls[1])].intr)'
      BY <2>5, <2>12
    <3>4. Len(calls') # 1 /\ stack' \in Seq(Word)
      BY <1>1, <1>5, <1>7
    <3> QED BY <3>1, <3>2, <3>3, <3>4, <2>11, <1>1, Zenon DEF StackInv
  <2> QED BY <2>1, <2>13, <1>1
<1> QED BY <1>6, <1>7, CallsCount

(* What iret finds: the frame of the call that returns, or, when an error code
   was left on the stack, that. *)
LEMMA IretFinds ==
    ASSUME TypeOK, CallsInv, StackInv, calls # <<>>, Cur.at # "stub", NEW n,
           n = Len(stack) - Stub(Cur.vector).drop
    PROVE  /\ Cur.vector \in HasErr => ~stack[n].frame
           /\ Cur.vector \notin HasErr =>
                /\ n \in Nat /\ n > 0 /\ n <= Len(stack) /\ stack[n].frame
                /\ n = IF Len(calls) = 1 THEN 1 ELSE 2 + Above(calls[1])
<1>1. PICK p \in Nat : p = Stub(Cur.vector).push /\ p = Stub(Cur.vector).drop
  BY StubBalanced
<1>2. PICK a \in Nat : a = Above(calls[1])
  BY AboveNat
<1>3. PICK b \in Nat : b = Above(Cur)
  BY AboveNat
<1>4. b = (IF Cur.vector \in HasErr THEN 1 ELSE 0) + p
  BY <1>1, <1>3, StubBalanced
<1>5. CASE Len(calls) = 1
  <2>1. Cur = calls[1] /\ Len(stack) = 1 + b
    BY <1>3, <1>5 DEF Cur, StackInv
  <2>2. \A i \in 1..(1 + b) : stack[i].frame <=> i = 1
    BY <2>1, <1>5 DEF StackInv
  <2>3. n = 1 + b - p
    BY <2>1, <1>1
  <2> QED BY <2>1, <2>2, <2>3, <1>4, <1>5
<1>6. CASE Len(calls) = 2
  <2>1. Cur = calls[2] /\ Len(stack) = 2 + a + b
    BY <1>2, <1>3, <1>6 DEF Cur, StackInv
  <2>2. \A i \in 1..(2 + a + b) : stack[i].frame <=> i = 1 \/ i = 2 + a
    BY <2>1, <1>2, <1>6 DEF StackInv
  <2>3. n = 2 + a + b - p
    BY <2>1, <1>1
  <2> QED BY <2>1, <2>2, <2>3, <1>2, <1>4, <1>6
<1> QED BY <1>5, <1>6, CallsCount

(* iret: the call and what is above and with its frame are gone. *)
LEMMA IretKeeps ==
    ASSUME TypeOK, StageInv, CallsInv, StackInv, LostInv, Iret
    PROVE  /\ CpuType' /\ CallsInv' /\ StackInv' /\ LostInv'
           /\ intr' => stage' = "loop" /\ calls' = <<>>
           /\ \/ calls' = <<>> /\ Len(calls) = 1
              \/ calls' # <<>> /\ calls'[1] = calls[1]
<1> DEFINE n == Len(stack) - Stub(Cur.vector).drop
<1>1. Running /\ calls # <<>> /\ Cur.at = "return" /\ UNCHANGED <<platform, stage>>
  BY DEF Iret, At, machine
<1>2. /\ Cur.vector \in HasErr => ~stack[n].frame
      /\ Cur.vector \notin HasErr =>
           /\ n \in Nat /\ n > 0 /\ n <= Len(stack) /\ stack[n].frame
           /\ n = IF Len(calls) = 1 THEN 1 ELSE 2 + Above(calls[1])
  BY <1>1, IretFinds
<1>3. CASE ~(n > 0 /\ stack[n].frame)
  <2>1. stopped' = "lost" /\ UNCHANGED <<intr, nmiBlocked, calls, stack, hurt>>
    BY <1>3 DEF Iret, cpu
  <2>2. Cur.vector \in HasErr
    BY <1>2, <1>3
  <2>3. hurt
    BY <2>2, <1>1, CallsCount DEF CallsInv, Cur
  <2>4. CallsInv' /\ LostInv' /\ CpuType'
    BY <2>1, <2>3, <1>1 DEF CallsInv, LostInv, CpuType, TypeOK, Call, Cur
  <2>5. StackInv'
    BY <2>1, <1>1 DEF StackInv, Above, Stub, x86_isr, x86_64_isr
  <2> QED BY <2>1, <2>4, <2>5, <1>1 DEF StageInv
<1>4. CASE n > 0 /\ stack[n].frame
  <2>1. /\ stack' = SubSeq(stack, 1, n - 1)
        /\ intr' = stack[n].intr
        /\ calls' = SubSeq(calls, 1, Len(calls) - 1)
        /\ nmiBlocked' = FALSE
        /\ hurt' = (hurt \/ Len(calls) > 1 \/ stage # "loop")
        /\ stopped' \in IF Len(calls) > 1 \/ stage # "loop" THEN {"no", "lost"} ELSE {"no"}
    BY <1>4 DEF Iret
  <2>2. Cur.vector \notin HasErr
    BY <1>2, <1>4
  <2>3. PICK m \in Nat : m = n /\ m > 0 /\ m <= Len(stack) /\ stack[m].frame
                         /\ m = IF Len(calls) = 1 THEN 1 ELSE 2 + Above(calls[1])
    BY <2>2, <1>2
  <2> HIDE DEF n
  <2>4. stack \in Seq(Word) /\ calls \in Seq(Call)
    BY CallsCount DEF StackInv
  <2>5. stopped' \in {"no", "lost"} /\ hurt' \in BOOLEAN /\ LostInv' /\ (hurt => hurt')
    BY <2>1 DEF LostInv, TypeOK
  <2>6. intr' \in BOOLEAN
    <3>1. stack[m] \in Word
      BY <2>3, <2>4
    <3> QED BY <3>1, <2>1, <2>3 DEF Word
  <2>7. CASE Len(calls) = 1
    <3>1. calls' = <<>> /\ stack' = <<>>
      <4>1. m = 1
        BY <2>3, <2>7
      <4> QED BY <4>1, <2>1, <2>3, <2>4, <2>7
    <3>2. Len(calls') = 0 /\ Len(stack') = 0 /\ DOMAIN calls' = {}
      BY <3>1
    <3>3. CallsInv'
      BY <3>1, <3>2 DEF CallsInv
    <3>4. StackInv'
      BY <3>1, <3>2 DEF StackInv
    <3>5. intr' => stage' = "loop"
      BY <2>1, <2>3, <2>7, <1>1 DEF StackInv
    <3>6. CpuType'
      <4>1. calls' \in Seq(Call)
        BY <3>1
      <4> QED BY <4>1, <2>1, <2>5, <2>6 DEF CpuType
    <3> QED BY <3>1, <3>3, <3>4, <3>5, <3>6, <2>5, <2>7
  <2>8. CASE Len(calls) = 2
    <3>1. PICK a \in Nat : a = Above(calls[1])
      BY AboveNat
    <3>2. m = 2 + a
      BY <3>1, <2>3, <2>8
    <3>3. calls' = SubSeq(calls, 1, 1)
      BY <2>1, <2>8
    <3>4. calls' \in Seq(Call) /\ Len(calls') = 1 /\ calls'[1] = calls[1] /\ DOMAIN calls' = {1}
      <4>1. /\ SubSeq(calls, 1, 1) \in Seq(Call) /\ Len(SubSeq(calls, 1, 1)) = 1
            /\ SubSeq(calls, 1, 1)[1] = calls[1]
        BY <2>4, <2>8, FirstOnly
      <4> QED BY <4>1, <3>3
    <3>5. calls' # <<>>
      BY <3>4, EmptyLen
    <3>6. stack' = SubSeq(stack, 1, 1 + a)
      BY <2>1, <2>3, <3>2
    <3>7. Len(stack) = 2 + a + Above(calls[2]) /\ Above(calls[2]) \in Nat
      BY <3>1, <2>8, AboveNat DEF StackInv
    <3>8. /\ stack' \in Seq(Word) /\ Len(stack') = 1 + a
          /\ \A i \in 1..(1 + a) : stack'[i] = stack[i]
      BY <3>6, <3>7, <2>4, SubSeqProperties
    <3>9. Above(calls[1])' = a
      BY <3>1, <3>4, <1>1 DEF Above, Stub, x86_isr, x86_64_isr
    <3>10. Len(calls') # 2 /\ Cur' = calls[1]
      BY <3>4 DEF Cur
    <3>11. CallsInv'
      <4>1. calls[1].vector # X86_NMI /\ stage # "start"
        BY <2>8, <1>1 DEF CallsInv
      <4>2. calls[1].vector \in HasErr => hurt
        BY <2>8, CallsCount, <1>1 DEF CallsInv
      <4>3. \A i \in DOMAIN calls' : calls'[i].vector \in HasErr => hurt'
        BY <4>2, <3>4, <2>5
      <4>4. (Len(calls) <= 2)'
        BY <3>4
      <4> QED BY <4>1, <4>3, <4>4, <3>10, <1>1 DEF CallsInv
    <3>12. \A i \in 1..(1 + a) : stack[i].frame <=> i = 1
      BY <3>1, <3>7, <2>8 DEF StackInv
    <3>13. (\A i \in 1..Len(stack) :
             stack[i].frame <=> i = 1 \/ (Len(calls) = 2 /\ i = 2 + Above(calls[1])))'
      BY <3>8, <3>10, <3>12
    <3>14. (Len(stack) = 1 + Above(calls[1]))'
      BY <3>8, <3>9
    <3>15. (stack[1].intr => stage = "loop")'
      BY <3>8, <1>1 DEF StackInv
    <3>16. StackInv'
      BY <3>5, <3>8, <3>10, <3>13, <3>14, <3>15, Zenon DEF StackInv
    <3>17. intr' = FALSE
      BY <3>1, <3>2, <2>1, <2>3, <2>6, <2>8 DEF StackInv
    <3>18. CpuType'
      BY <2>1, <2>5, <2>6, <3>4 DEF CpuType
    <3> QED BY <3>4, <3>5, <3>11, <3>16, <3>17, <3>18, <2>5, <2>8
  <2> QED BY <2>7, <2>8, <1>1, CallsCount
<1> QED BY <1>3, <1>4
-----------------------------------------------------------------------------
(* The part of the state an action of the hardware leaves alone. *)
LEMMA StackSame ==
    ASSUME CallsInv, StackInv, LostInv,
           UNCHANGED <<platform, stage, calls, stack, nmiBlocked, hurt>>,
           stopped' = "lost" => stopped = "lost" \/ hurt'
    PROVE  CallsInv' /\ StackInv' /\ LostInv'
BY DEF CallsInv, StackInv, LostInv, Cur, Above, Stub, x86_isr, x86_64_isr

(* The vector or'ed with IRQ_SPURIOUS has that bit, so it is not the NMI's. *)
LEMMA OrSpuriousBit ==
    ASSUME NEW v \in 0..255
    PROVE  OrSpurious(v) \in 0..255 /\ (OrSpurious(v) \div 32) % 2 = 1
BY DEF OrSpurious, IRQ_SPURIOUS

(* Taking an interrupt, from the APIC, as a spurious one, an NMI or from the
   8259, keeps the invariant. *)
LEMMA HardwareKeeps ==
    ASSUME IInv, Take \/ Spurious \/ Nmi \/ ExtInt
    PROVE  IInv'
<1> USE DEF IInv
<1>0. PICK v \in 0..255 : /\ Enter(v) /\ UNCHANGED <<machine, stage>>
                          /\ IF v = X86_NMI THEN ~nmiBlocked ELSE intr
                          /\ Running /\ idle' = idle
  <2>1. CASE Take
    <3>1. Max(irr) \in {IRQ_TIMER, IRQ_ERROR}
      BY <2>1, MaxRequest DEF Take, TypeOK
    <3>2. Max(irr) \in 0..255 /\ Max(irr) # X86_NMI
      BY <3>1 DEF IRQ_TIMER, IRQ_ERROR, X86_NMI
    <3> QED BY <2>1, <3>2 DEF Take
  <2>2. CASE Spurious
    <3>1. apic.sv \in 0..255 /\ apic.sv # X86_NMI
      BY <2>2 DEF Spurious, TypeOK, StageInv, X86_NMI
    <3> QED BY <2>2, <3>1 DEF Spurious, Stray
  <2>3. CASE Nmi
    BY <2>3 DEF Nmi, Stray, X86_NMI
  <2>4. CASE ExtInt
    BY <2>4 DEF ExtInt, Stray, PicSpurious, X86_NMI
  <2> QED BY <2>1, <2>2, <2>3, <2>4
<1>1. CpuType' /\ CallsInv' /\ StackInv' /\ LostInv' /\ (intr' => intr /\ calls' = calls)
  BY <1>0, EnterKeeps
<1>2. UNCHANGED <<platform, stage, gates, handlers, apic, idle>>
  BY <1>0 DEF machine
<1>3. /\ irr' \subseteq irr /\ isr' \subseteq {IRQ_TIMER, IRQ_ERROR}
      /\ strays' \in 0..MaxStray
  <2>1. CASE Take
    BY <2>1, MaxRequest DEF Take, TypeOK
  <2>2. CASE ~Take
    <3>1. irr' = irr /\ isr' = isr /\ strays < MaxStray /\ strays' = strays + 1
      BY <2>2 DEF Spurious, Nmi, ExtInt, Stray
    <3>2. strays \in 0..MaxStray /\ isr \subseteq {IRQ_TIMER, IRQ_ERROR}
      BY DEF TypeOK
    <3> QED BY <3>1, <3>2, InterruptsAssumption
  <2> QED BY <2>1, <2>2
<1>4. TypeOK'
  BY <1>1, <1>2, <1>3 DEF TypeOK, CpuType, Call
<1>5. StageInv'
  BY <1>1, <1>2, <1>3 DEF StageInv
<1>6. ServiceInv'
  <2> SUFFICES ASSUME Running'
               PROVE  \/ isr' = {}
                      \/ calls' # <<>> /\ isr' = {calls'[1].vector} /\ calls'[1].at # "return"
    BY DEF ServiceInv
  <2>1. Entered(v) \in gates
    BY <1>0 DEF Enter, Running
  <2>2. PICK c : calls' = Append(calls, c) /\ c.vector = Entered(v) /\ c.at = "stub"
    BY <2>1, <1>0 DEF Enter
  <2>3. calls \in Seq(Call) /\ CpuType'
    BY <1>1 DEF TypeOK, Call
  <2>4. calls # <<>> => calls'[1] = calls[1] /\ calls' # <<>>
    BY <2>2, <2>3
  <2>5. calls = <<>> => calls' = <<c>> /\ calls'[1] = c /\ calls' # <<>>
    BY <2>2, <2>3
  <2>6. CASE Take
    <3>1. intr /\ calls = <<>> /\ isr = {}
      BY <2>6, <1>0 DEF Take, StageInv, ServiceInv
    <3>2. isr' = {Max(irr)} /\ Max(irr) \in {IRQ_TIMER, IRQ_ERROR} /\ Enter(Max(irr))
      BY <2>6, <3>1, MaxRequest DEF Take, TypeOK
    <3>3. gates = 0..59
      BY <3>1 DEF StageInv, x86_idt_init
    <3>4. Max(irr) \in gates
      BY <3>2, <3>3 DEF IRQ_TIMER, IRQ_ERROR
    <3>5. calls' = Append(calls, [vector |-> Max(irr), at |-> "stub"])
      BY <3>2, <3>4 DEF Enter, Entered
    <3>6. calls' = <<[vector |-> Max(irr), at |-> "stub"]>>
      BY <3>1, <3>5
    <3>7. calls' # <<>> /\ calls'[1].vector = Max(irr) /\ calls'[1].at # "return"
      BY <3>6
    <3> QED BY <3>2, <3>7
  <2>7. CASE ~Take
    <3>1. isr' = isr
      BY <2>7 DEF Spurious, Nmi, ExtInt
    <3>2. isr = {} \/ (calls # <<>> /\ isr = {calls[1].vector} /\ calls[1].at # "return")
      BY <1>0 DEF ServiceInv
    <3> QED BY <3>1, <3>2, <2>4
  <2> QED BY <2>6, <2>7
<1> QED BY <1>1, <1>4, <1>5, <1>6

(* A step of the kernel in an interrupt keeps the invariant. *)
LEMMA KernelKeeps ==
    ASSUME IInv, InterruptStep
    PROVE  IInv'
<1> USE DEF IInv
<1>0. /\ Running /\ calls # <<>> /\ UNCHANGED <<platform, stage, gates, handlers, apic, irr, idle, strays>>
  BY DEF InterruptStep, StubEntry, RunHandler, HandlerEoi, DispatchEoi, Iret, At, Eoi, machine
<1>1. intr = FALSE
  BY <1>0 DEF StageInv, TypeOK
<1>2. calls \in Seq(Call) /\ Len(calls) \in {1, 2}
  BY <1>0, CallsCount
<1>3. ASSUME NEW s \in Steps, Moved(s)
      PROVE  /\ calls'[1].vector = calls[1].vector
             /\ calls'[1].at = IF Len(calls) = 1 THEN s ELSE calls[1].at
  <2>1. 1 \in 1..Len(calls)
    BY <1>2
  <2> QED BY <2>1, <1>3, <1>2 DEF Moved
<1>4. ASSUME CpuType', intr' = FALSE, isr' \subseteq isr
      PROVE  TypeOK' /\ StageInv'
  BY <1>0, <1>4 DEF TypeOK, StageInv, CpuType, Call
<1>5. CASE StubEntry
  <2>1. CASE Cur.vector \in Reserved
    <3>1. stopped' = "aborted" /\ UNCHANGED <<calls, stack, isr, intr, nmiBlocked, hurt>>
      BY <1>5, <2>1 DEF StubEntry
    <3>2. CallsInv' /\ StackInv' /\ LostInv'
      BY <3>1, <1>0, StackSame
    <3>3. CpuType' /\ ServiceInv'
      BY <3>1 DEF CpuType, TypeOK, ServiceInv, Running, Call
    <3>4. TypeOK' /\ StageInv'
      BY <3>1, <3>3, <1>1, <1>4
    <3> QED BY <3>2, <3>3, <3>4
  <2>2. CASE Cur.vector \notin Reserved
    <3>1. PICK s \in {"dispatched", "handler"} : GoTo(s)
      BY <1>5, <2>2 DEF StubEntry
    <3>2. /\ stack' = stack \o Words(Stub(Cur.vector).push) /\ Cur.at = "stub"
          /\ UNCHANGED <<isr, intr, nmiBlocked, hurt, stopped>>
      BY <1>5, <2>2 DEF StubEntry, At
    <3>3. Moved(s) /\ s \in Steps
      BY <3>1, <1>0, GoToMoves DEF Steps
    <3>4. CallsInv' /\ StackInv' /\ calls' # <<>> /\ calls' \in Seq(Call)
      BY <3>1, <3>2, <3>3, <1>0, StubKeeps
    <3>5. CpuType' /\ LostInv'
      BY <3>2, <3>4 DEF CpuType, TypeOK, LostInv
    <3>6. ServiceInv'
      BY <3>1, <3>2, <3>3, <3>4, <1>3 DEF ServiceInv, Running
    <3>7. TypeOK' /\ StageInv'
      BY <3>2, <3>5, <1>1, <1>4
    <3> QED BY <3>4, <3>5, <3>6, <3>7
  <2> QED BY <2>1, <2>2
<1>6. ASSUME NEW s \in Steps \ {"stub"}, GoTo(s), Cur.at # "stub", isr' \subseteq isr,
             (s = "return" /\ Len(calls) = 1) => isr' = {},
             isr' = isr \/ isr' = {},
             UNCHANGED <<stack, intr, nmiBlocked, hurt, stopped>>
      PROVE  IInv'
  <2>1. Moved(s)
    BY <1>0, <1>6, GoToMoves
  <2>2. CallsInv' /\ StackInv' /\ calls' # <<>> /\ calls' \in Seq(Call)
    BY <2>1, <1>0, <1>6, MovedKeeps
  <2>3. CpuType' /\ LostInv'
    BY <2>2, <1>6 DEF CpuType, TypeOK, LostInv
  <2>4. ServiceInv'
    BY <2>1, <2>2, <1>3, <1>6, <1>0 DEF ServiceInv, Running
  <2>5. TypeOK' /\ StageInv'
    BY <2>3, <1>1, <1>4, <1>6
  <2> QED BY <2>2, <2>3, <2>4, <2>5
<1>7. CASE RunHandler
  <2>1. GoTo("handled") /\ Cur.at = "handler" /\ UNCHANGED <<stack, intr, nmiBlocked, hurt, stopped, isr>>
    BY <1>7 DEF RunHandler, At
  <2> QED BY <2>1, <1>6 DEF Steps
<1>8. ASSUME NEW s \in {"dispatched", "return"}, Eoi(s), Cur.at # "stub"
      PROVE  IInv'
  <2>1. UNCHANGED <<intr, nmiBlocked, stack>>
    BY <1>8 DEF Eoi
  <2>2. CASE apic.mapped
    <3>1. isr' = isr \ Retired /\ GoTo(s) /\ UNCHANGED <<stopped, hurt>>
      BY <1>8, <2>2 DEF Eoi
    <3>2. isr' = {}
      <4>1. CASE isr = {}
        BY <3>1, <4>1
      <4>2. CASE isr # {}
        <5>1. isr = {calls[1].vector}
          BY <4>2, <1>0 DEF ServiceInv
        <5>2. calls[1] \in Call
          BY <1>2
        <5>3. calls[1].vector \in Nat
          BY <5>2 DEF Call
        <5> QED BY <5>1, <5>3, <3>1, RetiredOne
      <4> QED BY <4>1, <4>2
    <3>3. s \in Steps \ {"stub"}
      BY DEF Steps
    <3> QED BY <3>1, <3>2, <3>3, <2>1, <1>6, <1>8
  <2>3. CASE ~apic.mapped
    <3>1. stopped' = "lost" /\ hurt' = TRUE /\ UNCHANGED <<isr, calls>>
      BY <1>8, <2>3 DEF Eoi
    <3>2. CallsInv' /\ LostInv' /\ CpuType' /\ ServiceInv'
      BY <3>1, <2>1, <1>0 DEF CallsInv, LostInv, CpuType, TypeOK, ServiceInv, Running, Call, Cur
    <3>3. StackInv'
      BY <3>1, <2>1, <1>0 DEF StackInv, Above, Stub, x86_isr, x86_64_isr
    <3>4. TypeOK' /\ StageInv'
      BY <3>1, <3>2, <2>1, <1>1, <1>4
    <3> QED BY <3>2, <3>3, <3>4
  <2> QED BY <2>2, <2>3
<1>9. CASE HandlerEoi
  BY <1>8, <1>9 DEF HandlerEoi, At
<1>10. CASE DispatchEoi
  BY <1>8, <1>10 DEF DispatchEoi, At
<1>11. CASE Iret
  <2>1. /\ CpuType' /\ CallsInv' /\ StackInv' /\ LostInv'
        /\ intr' => stage' = "loop" /\ calls' = <<>>
        /\ \/ calls' = <<>> /\ Len(calls) = 1
           \/ calls' # <<>> /\ calls'[1] = calls[1]
    BY <1>11, IretKeeps
  <2>2. isr' = isr /\ Cur.at = "return"
    BY <1>11 DEF Iret, At
  <2>3. ServiceInv'
    <3>1. isr = {} \/ (isr = {calls[1].vector} /\ calls[1].at # "return")
      BY <1>0 DEF ServiceInv
    <3>2. CASE calls' = <<>> /\ Len(calls) = 1
      BY <3>1, <3>2, <2>2 DEF ServiceInv, Cur
    <3>3. CASE calls' # <<>> /\ calls'[1] = calls[1]
      BY <3>1, <3>3, <2>2 DEF ServiceInv
    <3> QED BY <3>2, <3>3, <2>1
  <2>4. TypeOK' /\ StageInv'
    BY <2>1, <2>2, <1>0 DEF TypeOK, StageInv, CpuType, Call
  <2> QED BY <2>1, <2>3, <2>4
<1> QED BY <1>5, <1>7, <1>9, <1>10, <1>11 DEF InterruptStep

(* A step of boot() keeps the invariant. *)
LEMMA BootKeeps ==
    ASSUME IInv, BootStep
    PROVE  IInv'
<1> USE DEF IInv
<1>0. /\ Running /\ calls = <<>> /\ stack = <<>> /\ isr = {}
      /\ UNCHANGED <<platform, irr, nmiBlocked, calls, stack, stopped, hurt, strays>>
  BY DEF BootStep, LoadIdt, ApicMap, ApicHandlers, ApicProgram, AddIdle, Sti, Stage,
         machine, cpu, StackInv, ServiceInv
<1>1. CallsInv' /\ StackInv' /\ LostInv' /\ calls' = <<>>
  BY <1>0 DEF CallsInv, StackInv, LostInv
<1>2. isr' = {}
  BY <1>0 DEF BootStep, LoadIdt, ApicMap, ApicHandlers, ApicProgram, AddIdle, Sti
<1>3. ServiceInv'
  BY <1>2 DEF ServiceInv
<1>4. CASE LoadIdt
  <2>1. /\ stage = "start" /\ stage' = "idt" /\ gates' = 0..59
        /\ UNCHANGED <<handlers, apic, intr, idle>>
    BY <1>4 DEF LoadIdt, Stage, cpu, x86_idt_init, x86_64_idt_init
  <2>2. TypeOK'
    <3>1. gates' \subseteq 0..255
      BY <2>1
    <3> QED BY <3>1, <2>1, <1>0, <1>2 DEF TypeOK
  <2>3. StageInv'
    BY <2>1, <1>0 DEF StageInv, x86_idt_init
  <2> QED BY <2>2, <2>3, <1>1, <1>3
<1>5. CASE ApicMap
  <2>1. /\ stage = "idt" /\ stage' = "mapped" /\ apic' = [apic EXCEPT !.mapped = TRUE]
        /\ UNCHANGED <<gates, handlers, intr, idle>>
    BY <1>5 DEF ApicMap, Stage, cpu
  <2>2. TypeOK'
    BY <2>1, <1>0, <1>2 DEF TypeOK
  <2>3. UNCHANGED <<apic.enabled, apic.sv, apic.timer>>
    BY <2>1 DEF TypeOK
  <2>4. StageInv'
    BY <2>1, <2>3, <1>0 DEF StageInv
  <2> QED BY <2>2, <2>4, <1>1, <1>3
<1>6. CASE ApicHandlers
  <2>1. /\ stage = "mapped" /\ stage' = "handlers" /\ UNCHANGED <<gates, apic, intr, idle>>
        /\ handlers' = [handlers EXCEPT ![IRQ_TIMER] = "timer", ![IRQ_SPURIOUS] = "spurious",
                                        ![IRQ_ERROR] = "error"]
    BY <1>6 DEF ApicHandlers, Stage, cpu
  <2>2. TypeOK'
    BY <2>1, <1>0, <1>2 DEF TypeOK
  <2>3. StageInv'
    BY <2>1, <1>0 DEF StageInv
  <2> QED BY <2>2, <2>3, <1>1, <1>3
<1>7. CASE ApicProgram
  <2>1. OrSpurious(apic.sv) \in 0..255 /\ (OrSpurious(apic.sv) \div 32) % 2 = 1
    BY OrSpuriousBit DEF TypeOK
  <2>2. apic' = [apic EXCEPT !.lint0 = @ \cup {17}, !.lint1 = @ \cup {17},
                             !.sv = OrSpurious(@), !.enabled = TRUE, !.timer = TRUE]
    BY <1>7 DEF ApicProgram
  <2>3. apic' \in [mapped : BOOLEAN, enabled : BOOLEAN, timer : BOOLEAN, sv : 0..255,
                   lint0 : SUBSET {16, 17}, lint1 : SUBSET {16, 17}]
    BY <2>1, <2>2 DEF TypeOK
  <2>4. apic'.sv = OrSpurious(apic.sv) /\ apic'.enabled
    BY <2>2 DEF TypeOK
  <2>5. stage = "handlers" /\ stage' = "apic" /\ UNCHANGED <<gates, handlers, intr, idle>>
    BY <1>7 DEF ApicProgram, Stage, cpu
  <2>6. TypeOK'
    BY <2>3, <2>5, <1>0, <1>2 DEF TypeOK
  <2>7. StageInv'
    BY <2>1, <2>4, <2>5, <1>0 DEF StageInv
  <2> QED BY <2>6, <2>7, <1>1, <1>3
<1>8. CASE AddIdle
  <2>1. /\ stage = "apic" /\ stage' = "processes" /\ idle' = TRUE
        /\ UNCHANGED <<gates, handlers, apic, intr>>
    BY <1>8 DEF AddIdle, Stage, cpu, machine
  <2>2. TypeOK'
    BY <2>1, <1>0, <1>2 DEF TypeOK
  <2>3. StageInv'
    BY <2>1, <1>0 DEF StageInv
  <2> QED BY <2>2, <2>3, <1>1, <1>3
<1>9. CASE Sti
  <2>1. /\ stage = "processes" /\ stage' = "loop" /\ intr' = TRUE
        /\ UNCHANGED <<gates, handlers, apic, idle>>
    BY <1>9 DEF Sti, Stage, machine
  <2>2. TypeOK'
    BY <2>1, <1>0, <1>2 DEF TypeOK
  <2>3. StageInv'
    BY <2>1, <1>0, <1>1 DEF StageInv
  <2> QED BY <2>2, <2>3, <1>1, <1>3
<1> QED BY <1>4, <1>5, <1>6, <1>7, <1>8, <1>9 DEF BootStep
-----------------------------------------------------------------------------
(* The invariant holds when the boot loader enters the kernel. *)
LEMMA InitIInv == Init => IInv
<1> SUFFICES ASSUME Init
             PROVE  IInv
  OBVIOUS
<1>1. TypeOK
  <2>1. apic \in [mapped : BOOLEAN, enabled : BOOLEAN, timer : BOOLEAN, sv : 0..255,
                  lint0 : SUBSET {16, 17}, lint1 : SUBSET {16, 17}]
    BY InterruptsAssumption DEF Init
  <2>2. calls \in Seq([vector : 0..59, at : Steps]) /\ strays \in 0..MaxStray
    BY InterruptsAssumption DEF Init
  <2> QED BY <2>1, <2>2 DEF Init, TypeOK
<1>2. StageInv
  BY DEF Init, StageInv
<1>3. CallsInv /\ StackInv
  <2>1. calls = <<>> /\ stack = <<>> /\ Len(calls) = 0 /\ Len(stack) = 0 /\ DOMAIN calls = {}
    BY DEF Init
  <2>2. stack \in Seq(Word)
    BY <2>1
  <2> QED BY <2>1, <2>2 DEF CallsInv, StackInv
<1>4. ServiceInv /\ LostInv
  BY DEF Init, ServiceInv, LostInv
<1> QED BY <1>1, <1>2, <1>3, <1>4 DEF IInv

(* Every step keeps the invariant. *)
LEMMA NextIInv == IInv /\ [Next]_vars => IInv'
<1> SUFFICES ASSUME IInv, [Next]_vars
             PROVE  IInv'
  OBVIOUS
<1>1. CASE TimerTick \/ ApicError
  <2>1. /\ UNCHANGED <<platform, gates, handlers, apic, stage, isr, intr, nmiBlocked, calls, stack,
                       idle, stopped, hurt>>
        /\ irr' \subseteq irr \cup {IRQ_TIMER, IRQ_ERROR} /\ apic.enabled
    BY <1>1 DEF TimerTick, ApicError, machine, cpu, IInv, StageInv
  <2>2. strays' \in 0..MaxStray
    <3>1. strays' = strays \/ (strays < MaxStray /\ strays' = strays + 1)
      BY <1>1 DEF TimerTick, ApicError
    <3>2. strays \in 0..MaxStray
      BY DEF IInv, TypeOK
    <3> QED BY <3>1, <3>2, InterruptsAssumption
  <2>3. TypeOK'
    BY <2>1, <2>2 DEF IInv, TypeOK
  <2>4. StageInv' /\ ServiceInv'
    BY <2>1 DEF IInv, StageInv, ServiceInv, Running
  <2>5. CallsInv' /\ StackInv' /\ LostInv'
    BY <2>1, StackSame DEF IInv
  <2> QED BY <2>3, <2>4, <2>5 DEF IInv
<1>2. CASE Take \/ Spurious \/ Nmi \/ ExtInt
  BY <1>2, HardwareKeeps
<1>3. CASE InterruptStep
  BY <1>3, KernelKeeps
<1>4. CASE BootStep
  BY <1>4, BootKeeps
<1>5. CASE UNCHANGED vars
  <2>1. TypeOK'
    BY <1>5 DEF IInv, TypeOK, vars
  <2>2. StageInv' /\ ServiceInv'
    BY <1>5 DEF IInv, StageInv, ServiceInv, Running, vars
  <2>3. CallsInv' /\ StackInv' /\ LostInv'
    BY <1>5, StackSame DEF IInv, vars
  <2> QED BY <2>1, <2>2, <2>3 DEF IInv
<1> QED BY <1>1, <1>2, <1>3, <1>4, <1>5 DEF Next, Wait

(* The invariant holds throughout. *)
LEMMA SpecIInv == Spec => []IInv
BY InitIInv, NextIInv, PTL DEF Spec

(* idt.S 30-48: whatever the number of stray interrupts and wherever they come,
   the stack is exactly what the running stubs have to drop, and no stub
   returns to anything but what it interrupted unless an exception with an
   error code or an interrupt before its time came first. *)
THEOREM SpecStackUnwound == Spec => []StackUnwound
<1>1. IInv => StackUnwound
  <2> SUFFICES ASSUME IInv
               PROVE  StackUnwound
    OBVIOUS
  <2> USE DEF IInv
  <2> DEFINE F == {i \in DOMAIN stack : stack[i].frame}
  <2>1. Cardinality(F) = Len(calls)
    <3>1. stack \in Seq(Word) /\ DOMAIN stack = 1..Len(stack) /\ Len(stack) \in Nat
      BY DEF StackInv
    <3>2. CASE calls = <<>>
      <4>1. F = {}
        <5>1. DOMAIN stack = {}
          BY <3>2 DEF StackInv
        <5> QED BY <5>1
      <4> QED BY <4>1, <3>2, FS_EmptySet, CallsCount
    <3>3. CASE Len(calls) = 1
      <4>1. Len(stack) >= 1
        BY <3>3, AboveNat, <3>1 DEF StackInv
      <4>2. F = {1}
        BY <4>1, <3>1, <3>3 DEF StackInv
      <4> QED BY <4>2, <3>3, FS_Singleton
    <3>4. CASE Len(calls) = 2
      <4>1. PICK a \in Nat : a = Above(calls[1])
        BY AboveNat
      <4>2. PICK b \in Nat : b = Above(calls[2])
        BY AboveNat
      <4>3. Len(stack) = 2 + a + b
        BY <4>1, <4>2, <3>4 DEF StackInv
      <4>4. \A i \in 1..(2 + a + b) : stack[i].frame <=> i = 1 \/ i = 2 + a
        BY <4>1, <4>3, <3>4 DEF StackInv
      <4>5. F = {1, 2 + a} /\ 1 # 2 + a
        BY <4>3, <4>4, <3>1
      <4>6. Cardinality({1, 2 + a}) = 2
        <5>1. IsFiniteSet({1}) /\ Cardinality({1}) = 1
          BY FS_Singleton
        <5>2. {1, 2 + a} = {1} \cup {2 + a} /\ 2 + a \notin {1}
          BY <4>5
        <5> QED BY <5>1, <5>2, FS_AddElement
      <4> QED BY <4>5, <4>6, <3>4
    <3> QED BY <3>2, <3>3, <3>4, CallsCount
  <2> HIDE DEF F
  <2>2. stopped = "lost" => hurt
    BY DEF LostInv
  <2>3. calls = <<>> => stack = <<>>
    BY DEF StackInv
  <2> QED BY <2>1, <2>2, <2>3 DEF StackUnwound, F
<1> QED BY <1>1, SpecIInv, PTL

(* LocalApic.cc 150-154, InterruptManager.cc 15-23: no handler is entered while
   it runs, however often an interrupt is acknowledged. *)
THEOREM SpecNotReentered == Spec => []NotReentered
<1>1. IInv => NotReentered
  BY CallsCount DEF IInv, CallsInv, NotReentered
<1> QED BY <1>1, SpecIInv, PTL

(* LocalApic.cc 202-204: nothing is left in service when nothing is handled. *)
THEOREM SpecNothingLeftInService == Spec => []NothingLeftInService
<1>1. IInv => NothingLeftInService
  <2> SUFFICES ASSUME IInv, Running, NEW v \in isr
               PROVE  \E i \in DOMAIN calls : calls[i].vector = v
    BY DEF NothingLeftInService
  <2>1. calls # <<>> /\ isr = {calls[1].vector}
    BY DEF IInv, ServiceInv
  <2>2. 1 \in DOMAIN calls
    BY <2>1, CallsCount DEF IInv
  <2> QED BY <2>1, <2>2
<1> QED BY <1>1, SpecIInv, PTL
=============================================================================
