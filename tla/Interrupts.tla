----------------------------- MODULE Interrupts -----------------------------
(***************************************************************************)
(* From the first instruction after the boot loader to the loop at the end *)
(* of boot(), as interrupts see it: the descriptor table and the entry     *)
(* stubs of idt.S, InterruptManager, the registers of LocalApic, and the   *)
(* timer that calls the scheduler.  The processor runs boot() and, nested  *)
(* in it, the interrupts it has taken (calls, the innermost last); stack   *)
(* holds the words that were pushed for them.  Non-maskable interrupts may *)
(* come at any time, others when the interrupt flag is set.                *)
(* The two platforms differ in their stubs and in the order of the first   *)
(* steps; platform and what the firmware left in the APIC are chosen once. *)
(***************************************************************************)
EXTENDS Integers, Sequences, FiniteSets, FiniteSetsExt

CONSTANTS
    FirmwareSpurious,   \* spurious vectors firmware may have left in the APIC
    MaxStray            \* bound on interrupts other than the timer's

ASSUME InterruptsAssumption ==
    FirmwareSpurious \subseteq 0..255 /\ MaxStray \in Nat

VARIABLES
    platform, stage,    \* stage: how far the code up to boot()'s loop is
    gates, handlers,    \* the IDT: vectors with a gate; InterruptManager
    apic,               \* mapped, enabled, timer, sv, lint0, lint1
    irr, isr,           \* requested and in-service vectors of the APIC
    intr, nmiBlocked,   \* the interrupt flag; hardware holds back NMIs
    calls, stack,
    idle,               \* the scheduler has the idle process
    stopped,            \* "no", "aborted", or "lost": it runs wild
    hurt,               \* history: why it may get lost
    strays              \* history: interrupts that were not the timer's

machine == <<platform, gates, handlers, apic>>
cpu == <<intr, nmiBlocked, calls, stack>>
vars == <<platform, stage, gates, handlers, apic, irr, isr, intr, nmiBlocked,
          calls, stack, idle, stopped, hurt, strays>>

X86_NMI == 2
X86_GPF == 13
IRQ_SPURIOUS == 32
IRQ_TIMER == 33
IRQ_ERROR == 34
PicSpurious == 15       \* what a masked 8259 may still raise: its IRQ 7

Init ==
    /\ platform \in {"x86", "x86_64"}
    /\ stage = "start"
    /\ gates = {} /\ handlers = [v \in 0..59 |-> "none"]
    /\ apic \in [mapped : {FALSE}, enabled : {FALSE}, timer : {FALSE}, sv : FirmwareSpurious,
                 lint0 : {{}, {16}}, lint1 : {{}, {16}}]
    /\ irr = {} /\ isr = {} /\ intr = FALSE /\ nmiBlocked = FALSE
    /\ calls = <<>> /\ stack = <<>> /\ idle = FALSE
    /\ stopped = "no" /\ hurt = FALSE /\ strays = 0
-----------------------------------------------------------------------------
(* idt.S.  The table of stubs: exceptions with an error code, and the reserved
   ones, whose stub calls abort(). *)
HasErr == {8, 10, 11, 12, 13, 14, 17}
Reserved == {9, 15} \cup 20..31

(* The words a stub pushes, and those it drops before iret.  On x86 the
   argument of interrupt_l0() is on the stack too. *)
x86_64_isr_NoCode(v) == [push |-> 1, drop |-> IF v \in HasErr THEN 1 ELSE 2]
x86_64_isr(v) ==
    [push |-> IF v \in HasErr THEN 1 ELSE 2,   \* number; code and number
     drop |-> IF v \in HasErr THEN 1 ELSE 2]
x86_isr(v) ==
    [push |-> IF v \in HasErr THEN 2 ELSE 3,
     drop |-> IF v \in HasErr THEN 2 ELSE 3]
Stub(v) == IF platform = "x86" THEN x86_isr(v) ELSE x86_64_isr(v)

(* The vectors idt_init gives a gate; idt_set() makes it a present interrupt
   gate, which clears the interrupt flag. *)
x86_64_idt_init == 0..59
x86_idt_init == 0..59
GateClearsFlag_Trap == FALSE
GateClearsFlag == TRUE

(* The processor enters the stub of v.  Without a gate it raises #GP, without
   one for that it resets. *)
Frame == [frame |-> TRUE, intr |-> intr]
Words(n) == [i \in 1..n |-> [frame |-> FALSE, intr |-> FALSE]]
Entered(v) == IF v \in gates THEN v ELSE X86_GPF

Enter(v) ==
    IF Entered(v) \notin gates
    THEN stopped' = "lost" /\ hurt' = TRUE /\ UNCHANGED cpu
    ELSE LET e == Entered(v) IN
         /\ stack' = stack \o <<Frame>> \o Words(IF e \in HasErr THEN 1 ELSE 0)
         /\ calls' = Append(calls, [vector |-> e, at |-> "stub"])
         /\ intr' = (intr /\ ~GateClearsFlag)
         /\ nmiBlocked' = (nmiBlocked \/ v = X86_NMI)
         /\ hurt' = (hurt \/ e \in HasErr)
         /\ UNCHANGED stopped
-----------------------------------------------------------------------------
(* What the hardware does. *)
Running == stopped = "no"
Class(v) == v \div 16
Masked(lvt) == 16 \in lvt

(* The timer counts down again: periodic once it is programmed. *)
TimerTick ==
    /\ Running /\ apic.timer /\ IRQ_TIMER \notin irr
    /\ irr' = irr \cup {IRQ_TIMER}
    /\ UNCHANGED <<machine, stage, isr, cpu, idle, stopped, hurt, strays>>

(* The APIC notices an error of its own. *)
ApicError ==
    /\ Running /\ apic.enabled /\ IRQ_ERROR \notin irr /\ strays < MaxStray
    /\ irr' = irr \cup {IRQ_ERROR} /\ strays' = strays + 1
    /\ UNCHANGED <<machine, stage, isr, cpu, idle, stopped, hurt>>

(* The processor takes the highest request of a class above what is in service. *)
Take ==
    /\ Running /\ intr /\ apic.enabled /\ irr # {}
    /\ \A s \in isr : Class(Max(irr)) > Class(s)
    /\ irr' = irr \ {Max(irr)} /\ isr' = isr \cup {Max(irr)}
    /\ Enter(Max(irr))
    /\ UNCHANGED <<machine, stage, idle, strays>>

Stray == Running /\ strays < MaxStray /\ strays' = strays + 1

(* A request that went away: the spurious vector, which is never in service. *)
Spurious ==
    /\ Stray /\ intr /\ apic.enabled
    /\ Enter(apic.sv)
    /\ UNCHANGED <<machine, stage, irr, isr, idle>>

(* LINT1 is wired to the NMI, LINT0 to the 8259, by the firmware. *)
Nmi ==
    /\ Stray /\ ~nmiBlocked /\ ~Masked(apic.lint1)
    /\ Enter(X86_NMI)
    /\ UNCHANGED <<machine, stage, irr, isr, idle>>

ExtInt ==
    /\ Stray /\ intr /\ ~Masked(apic.lint0)
    /\ Enter(PicSpurious)
    /\ UNCHANGED <<machine, stage, irr, isr, idle>>
-----------------------------------------------------------------------------
(* The kernel: interrupt_l0(), dispatch(), the handlers, LocalApic::eoi(). *)
Cur == calls[Len(calls)]
At(s) == Running /\ calls # <<>> /\ Cur.at = s
GoTo(s) == calls' = [calls EXCEPT ![Len(calls)].at = s]
Handler == handlers[Cur.vector]

(* The stub of a reserved vector calls abort(). *)
StubEntry ==
    /\ At("stub")
    /\ IF Cur.vector \in Reserved
       THEN stopped' = "aborted" /\ UNCHANGED <<calls, stack>>
       ELSE /\ stack' = stack \o Words(Stub(Cur.vector).push)
            /\ GoTo(IF Handler = "none" THEN "dispatched" ELSE "handler")
            /\ UNCHANGED stopped
    /\ UNCHANGED <<machine, stage, irr, isr, intr, nmiBlocked, idle, hurt, strays>>

(* timerHandler(), spuriousHandler(), errorHandler(); the first one calls
   Scheduler::schedule(), which comes back as switchTo() does nothing. *)
RunHandler ==
    /\ At("handler") /\ GoTo("handled")
    /\ UNCHANGED <<machine, stage, irr, isr, intr, nmiBlocked, stack, idle, stopped, hurt, strays>>

(* eoi(): the highest vector in service is done, if there is one.  Before
   init() mapped the registers the store faults, the fault is dispatched and
   ends in the same store: that never ends. *)
Retired_None == {}
Retired == IF isr = {} THEN {} ELSE {Max(isr)}

Eoi(then) ==
    /\ IF apic.mapped
       THEN isr' = isr \ Retired /\ GoTo(then) /\ UNCHANGED <<stopped, hurt>>
       ELSE stopped' = "lost" /\ hurt' = TRUE /\ UNCHANGED <<isr, calls>>
    /\ UNCHANGED <<machine, stage, irr, intr, nmiBlocked, stack, idle, strays>>

(* Every handler acknowledges, and so does dispatch() after it. *)
HandlerEoi == At("handled") /\ Eoi("dispatched")
DispatchEoi == At("dispatched") /\ Eoi("return")

(* The end of the stub: whatever is on top of the stack is returned to.  No
   stub saves a register, so that anything but the loop of boot() finds its
   registers changed and may go anywhere. *)
Iret ==
    LET n == Len(stack) - Stub(Cur.vector).drop
        clobbers == Len(calls) > 1 \/ stage # "loop"
    IN
    /\ At("return")
    /\ IF n > 0 /\ stack[n].frame
       THEN /\ stack' = SubSeq(stack, 1, n - 1)
            /\ intr' = stack[n].intr
            /\ calls' = SubSeq(calls, 1, Len(calls) - 1)
            /\ nmiBlocked' = FALSE
            /\ hurt' = (hurt \/ clobbers)
            /\ stopped' \in IF clobbers THEN {"no", "lost"} ELSE {"no"}
       ELSE stopped' = "lost" /\ UNCHANGED <<cpu, hurt>>
    /\ UNCHANGED <<machine, stage, irr, isr, idle, strays>>

InterruptStep == StubEntry \/ RunHandler \/ HandlerEoi \/ DispatchEoi \/ Iret
-----------------------------------------------------------------------------
(* boot.S and boot(), with the interrupt flag off up to its last lines. *)
Stage(from, to) == Running /\ calls = <<>> /\ stage = from /\ stage' = to

LoadIdt ==
    /\ Stage("start", "idt")
    /\ gates' = IF platform = "x86" THEN x86_idt_init ELSE x86_64_idt_init
    /\ UNCHANGED <<platform, handlers, apic, irr, isr, cpu, idle, stopped, hurt, strays>>

(* LocalApic::init() in three parts: its page, the handlers, the registers. *)
ApicMap ==
    /\ Stage("idt", "mapped")
    /\ apic' = [apic EXCEPT !.mapped = TRUE]
    /\ UNCHANGED <<platform, gates, handlers, irr, isr, cpu, idle, stopped, hurt, strays>>

ApicHandlers_NoTimer ==
    /\ Stage("mapped", "handlers")
    /\ handlers' = [handlers EXCEPT ![IRQ_SPURIOUS] = "spurious", ![IRQ_ERROR] = "error"]
    /\ UNCHANGED <<platform, gates, apic, irr, isr, cpu, idle, stopped, hurt, strays>>
ApicHandlers ==
    /\ Stage("mapped", "handlers")
    /\ handlers' = [handlers EXCEPT ![IRQ_TIMER] = "timer", ![IRQ_SPURIOUS] = "spurious",
                                    ![IRQ_ERROR] = "error"]
    /\ UNCHANGED <<platform, gates, apic, irr, isr, cpu, idle, stopped, hurt, strays>>

(* APIC_LVT_MASKED is bit 17.  The spurious vector is or'ed into the register,
   on top of the vector that is there. *)
OrSpurious(v) == IF (v \div 32) % 2 = 1 THEN v ELSE v + IRQ_SPURIOUS

ApicProgram ==
    /\ Stage("handlers", "apic")
    /\ apic' = [apic EXCEPT !.lint0 = @ \cup {17}, !.lint1 = @ \cup {17},
                            !.sv = OrSpurious(@), !.enabled = TRUE, !.timer = TRUE]
    /\ isr' = isr \ Retired
    /\ UNCHANGED <<platform, gates, handlers, irr, cpu, idle, stopped, hurt, strays>>

AddIdle ==
    /\ Stage("apic", "processes")
    /\ idle' = TRUE
    /\ UNCHANGED <<machine, irr, isr, cpu, stopped, hurt, strays>>

Sti ==
    /\ Stage("processes", "loop")
    /\ intr' = TRUE
    /\ UNCHANGED <<machine, irr, isr, nmiBlocked, calls, stack, idle, stopped, hurt, strays>>

BootStep == LoadIdt \/ ApicMap \/ ApicHandlers \/ ApicProgram \/ AddIdle \/ Sti

(* hlt in the loop of boot(), or a processor that has stopped. *)
Wait ==
    /\ ~Running \/ stage = "loop"
    /\ UNCHANGED vars

Next ==
    \/ TimerTick \/ ApicError \/ Take \/ Spurious \/ Nmi \/ ExtInt
    \/ InterruptStep \/ BootStep \/ Wait

(* The processor keeps executing, and the APIC keeps counting and delivering. *)
Spec == Init /\ [][Next]_vars /\ WF_vars(InterruptStep \/ BootStep)
                              /\ WF_vars(TimerTick) /\ WF_vars(Take)
-----------------------------------------------------------------------------
Steps == {"stub", "handler", "handled", "dispatched", "return"}

TypeOK ==
    /\ platform \in {"x86", "x86_64"}
    /\ stage \in {"start", "idt", "mapped", "handlers", "apic", "processes", "loop"}
    /\ gates \subseteq 0..255 /\ handlers \in [0..59 -> {"none", "timer", "spurious", "error"}]
    /\ apic \in [mapped : BOOLEAN, enabled : BOOLEAN, timer : BOOLEAN, sv : 0..255,
                 lint0 : SUBSET {16, 17}, lint1 : SUBSET {16, 17}]
    /\ irr \subseteq {IRQ_TIMER, IRQ_ERROR} /\ isr \subseteq {IRQ_TIMER, IRQ_ERROR}
    /\ {intr, nmiBlocked, idle, hurt} \subseteq BOOLEAN
    /\ calls \in Seq([vector : 0..59, at : Steps])
    /\ stopped \in {"no", "aborted", "lost"} /\ strays \in 0..MaxStray

(* idt.S 30-48, both platforms: as long as the processor has not met an
   exception with an error code or an interrupt before its time, every stub
   returns to what was interrupted, and what is on the stack is exactly what
   the running stubs still have to drop. *)
StackUnwound ==
    /\ TypeOK
    /\ stopped = "lost" => hurt
    /\ ~hurt => Cardinality({i \in DOMAIN stack : stack[i].frame}) = Len(calls)
    /\ calls = <<>> => stack = <<>>

(* LocalApic.cc 150-154, InterruptManager.cc 15-23: although an interrupt may
   be acknowledged twice, and by another one that is nested in it, the
   scheduler and the other handlers are never entered a second time while
   they run. *)
NotReentered ==
    \A i, j \in DOMAIN calls : i # j => calls[i].vector # calls[j].vector

(* LocalApic.cc 202-204: nothing is left in service when no interrupt is
   handled, so that nothing later is held back by it; and of what is in
   service the handler is running. *)
NothingLeftInService ==
    Running => \A v \in isr : \E i \in DOMAIN calls : calls[i].vector = v

Scheduling == calls # <<>> /\ Cur.at = "handler" /\ Handler = "timer"

(* Entry.cc 111-123: the scheduler runs only with its first process there, and
   with the timer it runs again and again, unless the processor stopped. *)
SchedulerRuns == []<>(~Running \/ (Scheduling /\ idle))
=============================================================================
