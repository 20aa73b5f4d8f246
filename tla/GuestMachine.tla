---------------------------- MODULE GuestMachine ----------------------------
(***************************************************************************)
(* What the emulator promises a guest program: every hart is a sequential  *)
(* processor whose system calls are atomic, and harts exchange register    *)
(* values through one FIFO mailbox each.  There are no traps, modes, CSRs, *)
(* timer interrupts, quanta or rounds here, and no order in which harts    *)
(* are served; Scheduler.tla is shown to implement this.                   *)
(***************************************************************************)
EXTENDS GuestIsa, Sequences

CONSTANT NHarts

VARIABLES prog,    \* the program of each hart
          state,   \* RUNNING, WAITING (in RECV), HALTED or FAULTED
          pc,      \* the next instruction, or the one that stopped the hart
          x,       \* registers
          box      \* mailboxes: sequences of <<sender, register value>>

gvars == <<prog, state, pc, x, box>>

Harts == 0 .. NHarts - 1

GuestInit ==
    /\ prog \in [Harts -> Programs]
    /\ state = [h \in Harts |-> "RUNNING"]
    /\ pc = [h \in Harts |-> hartSlotBase(h)]
    /\ x = [h \in Harts |-> [a0 |-> 0, a1 |-> 0, a7 |-> 0]]
    /\ box = [h \in Harts |-> <<>>]

\* Hart h runs and the instruction at its pc, inside its slot, is of class op.
At(h, op) ==
    /\ state[h] = "RUNNING"
    /\ pc[h] \in SlotBytes(h)
    /\ OpAt(prog[h], h, pc[h]) = op

Advance(h, regs, next) ==
    /\ x' = [x EXCEPT ![h] = regs]
    /\ pc' = [pc EXCEPT ![h] = next]

Compute(h) ==
    /\ \/ /\ At(h, "alu") \/ At(h, "load")
          /\ \E regs \in Computed(x[h]) : Advance(h, regs, pc[h] + 4)
       \/ /\ At(h, "store")
          /\ Advance(h, x[h], pc[h] + 4)
       \/ /\ At(h, "jump")
          /\ \E next \in Targets \cup {pc[h] + 4}, regs \in Linked(x[h], pc[h]) :
                Advance(h, regs, next)
    /\ UNCHANGED <<prog, state, box>>

\* A hart stops at the instruction that stopped it, for a reason that
\* instruction gives.
Stop(h) ==
    /\ \/ /\ At(h, "halt") \/ (At(h, "ecall") /\ x[h].a7 = EXIT)
          /\ state' = [state EXCEPT ![h] = "HALTED"]
       \/ /\ state[h] = "RUNNING"
          /\ \/ pc[h] \notin SlotBytes(h)
             \/ \E op \in {"ebreak", "mret", "csr", "illegal"} : At(h, op)
             \/ /\ At(h, "load") \/ At(h, "store")
                /\ Addresses \ SlotBytes(h) # {}
          /\ state' = [state EXCEPT ![h] = "FAULTED"]
    /\ UNCHANGED <<prog, pc, x, box>>

\* A system call that changes at most a0.
Simple(h) ==
    /\ At(h, "ecall")
    /\ \/ /\ x[h].a7 \notin {EXIT, SEND, RECV, GET_HARTID}
          /\ Advance(h, x[h], pc[h] + 4)
       \/ /\ x[h].a7 = GET_HARTID
          /\ Advance(h, [x[h] EXCEPT !.a0 = h], pc[h] + 4)
       \/ /\ x[h].a7 = SEND /\ x[h].a0 \notin Harts
          /\ Advance(h, [x[h] EXCEPT !.a0 = -1], pc[h] + 4)
    /\ UNCHANGED <<prog, state, box>>

Send(h) ==
    /\ At(h, "ecall") /\ x[h].a7 = SEND
    /\ \E t \in Harts :
          /\ t = x[h].a0
          /\ box' = [box EXCEPT ![t] = Append(@, <<h, x[h].a1>>)]
          /\ state' = IF state[t] = "WAITING"
                      THEN [state EXCEPT ![t] = "RUNNING"] ELSE state
    /\ Advance(h, [x[h] EXCEPT !.a0 = 0], pc[h] + 4)
    /\ UNCHANGED prog

Wait(h) ==
    /\ At(h, "ecall") /\ x[h].a7 = RECV
    /\ box[h] = <<>>
    /\ state' = [state EXCEPT ![h] = "WAITING"]
    /\ UNCHANGED <<prog, pc, x, box>>

Receive(h) ==
    /\ At(h, "ecall") /\ x[h].a7 = RECV
    /\ box[h] # <<>>
    /\ box' = [box EXCEPT ![h] = Tail(@)]
    /\ Advance(h, [x[h] EXCEPT !.a0 = Head(box[h])[2], !.a1 = Head(box[h])[1]],
               pc[h] + 4)
    /\ UNCHANGED <<prog, state>>

GuestNext ==
    \E h \in Harts : Compute(h) \/ Stop(h) \/ Simple(h) \/ Send(h) \/ Wait(h)
                     \/ Receive(h)

GuestSpec == GuestInit /\ [][GuestNext]_gvars
=============================================================================
