-------------------------------- MODULE Disk --------------------------------
(***************************************************************************)
(* One ATA channel with its two devices, the driver (devices/disk.c) and   *)
(* threads that read and write through it.                                 *)
(*                                                                         *)
(* The drive is external: it is modelled by what the driver relies on.  A  *)
(* read or an identification ends with the data ready and an interrupt; a  *)
(* write asks for the data without one and ends with an interrupt when it  *)
(* has stored them; BSY is set as long as it works, DRQ while it has or    *)
(* wants data.  It answers within the time the driver allows it.  The line *)
(* may also carry interrupts that nobody asked for.                        *)
(***************************************************************************)
EXTENDS Naturals

CONSTANTS
  Threads, main,   \* main detects the devices before the others start
  Sectors,
  Kinds,           \* what may be plugged in: see Registers
  MaxSpurious, MaxOps,   \* bounds
  NULL

Devs == {0, 1}
Empty == <<NULL, 0>>
Values == {Empty} \cup (Threads \X (1..MaxOps))

ASSUME DiskAssumption ==
  /\ main \in Threads /\ NULL \notin Threads \cup {"read", "write", "identify"}
  /\ MaxSpurious \in Nat /\ MaxOps \in Nat \ {0}
  /\ Kinds \subseteq {"ata", "mute", "absent", "atapi"}

VARIABLES
  pc, req, buf,   \* each thread: where it is, its request, its buffer
  ops,            \* the requests of each thread so far
  attached,       \* what is plugged in
  is_ata,         \* struct disk
  lock, expecting_interrupt, completion_wait,   \* struct channel
  selected, drive, irq, media,                  \* the hardware
  machine,        \* "on" or "panic"
  logical,        \* history: what was last written to each sector
  spurious        \* history: interrupts nobody asked for

driver == <<is_ata, lock, expecting_interrupt, completion_wait>>
hardware == <<attached, selected, drive, irq, media, machine>>
history == <<logical, spurious>>
vars == <<pc, req, buf, ops, driver, hardware, history>>

NoRequest == [cmd |-> NULL, dev |-> 0, sec |-> NULL]
IdleDrive == [phase |-> "idle", cmd |-> NULL, dev |-> 0, sec |-> NULL, data |-> Empty]

Init ==
  /\ pc = [t \in Threads |-> IF t = main THEN "check" ELSE "boot"]
  /\ req = [t \in Threads |-> NoRequest]
  /\ buf = [t \in Threads |-> Empty]
  /\ ops = [t \in Threads |-> 0]
  /\ attached \in [Devs -> Kinds]
  /\ is_ata = [d \in Devs |-> FALSE]
  /\ lock = NULL /\ expecting_interrupt = FALSE /\ completion_wait = 0
  /\ selected = 0 /\ drive = IdleDrive /\ irq = FALSE /\ machine = "on"
  /\ media = [d \in Devs |-> [s \in Sectors |-> Empty]]
  /\ logical = media /\ spurious = 0

Goto(t, l) == pc' = [pc EXCEPT ![t] = l]

-----------------------------------------------------------------------------
(* Detection, by main alone.                                               *)

\* What the registers hold after a reset.  A mute device looks like a disk and
\* refuses to identify itself.
Registers(kind, dev) ==
  CASE kind \in {"ata", "mute"} -> [error |-> IF dev = 0 /\ attached[1] = "absent" THEN 129 ELSE 1,
                        drdy |-> TRUE, bsy |-> FALSE, lbam |-> 0, lbah |-> 0]
    [] kind = "atapi" -> [error |-> 1, drdy |-> FALSE, bsy |-> FALSE, lbam |-> 20, lbah |-> 235]
    [] kind = "absent" -> [error |-> 255, drdy |-> FALSE, bsy |-> TRUE, lbam |-> 255, lbah |-> 255]

\* Mutant: whatever passed the diagnostics is taken for a disk.
MutCheckDeviceType(r, dev) ==
  IF r.error # 1 /\ (r.error # 129 \/ dev = 1)
  THEN [is_ata |-> FALSE, slave |-> r.error # 129]
  ELSE [is_ata |-> TRUE, slave |-> TRUE]

\* check_device_type: whether it is a disk, and whether a slave may exist.
check_device_type(r, dev) ==
  IF (r.error # 1 /\ (r.error # 129 \/ dev = 1)) \/ ~r.drdy \/ r.bsy
  THEN [is_ata |-> FALSE, slave |-> r.error # 129]
  ELSE [is_ata |-> (r.lbam = 0 /\ r.lbah = 0) \/ (r.lbam = 60 /\ r.lbah = 195), slave |-> TRUE]

\* The part of disk_init that resets the channel and tells disks from the rest.
Detect ==
  /\ pc[main] = "check"
  /\ LET master == check_device_type(Registers(attached[0], 0), 0)
         slave == check_device_type(Registers(attached[1], 1), 1)
     IN  is_ata' = [d \in Devs |-> IF d = 0 THEN master.is_ata ELSE master.slave /\ slave.is_ata]
  /\ Goto(main, "probe") /\ selected' = 1
  /\ UNCHANGED <<req, buf, ops, lock, expecting_interrupt, completion_wait, attached, drive,
                 irq, media, machine, history>>

\* identify_ata_device, for one disk and then the other; it takes no lock.
Identify ==
  /\ pc[main] = "probe"
  /\ LET left == IF req[main].cmd = NULL THEN {d \in Devs : is_ata[d]}
                 ELSE {d \in Devs : is_ata[d] /\ d > req[main].dev}
     IN  \/ /\ left = {}
            /\ pc' = [t \in Threads |-> "idle"]
            /\ req' = [req EXCEPT ![main] = NoRequest]
         \/ /\ left # {}
            /\ Goto(main, "select")
            /\ req' = [req EXCEPT ![main] =
                 [cmd |-> "identify", dev |-> CHOOSE d \in left : \A e \in left : d <= e,
                  sec |-> NULL]]
  /\ UNCHANGED <<buf, ops, driver, hardware, history>>

-----------------------------------------------------------------------------
(* Requests.                                                               *)

\* disk_read and disk_write ask for the lock of the channel; disk_get gives out
\* disks only.
Request(t, cmd, d, s) ==
  /\ pc[t] = "idle" /\ ops[t] < MaxOps /\ is_ata[d]
  /\ Goto(t, "lock")
  /\ req' = [req EXCEPT ![t] = [cmd |-> cmd, dev |-> d, sec |-> s]]
  /\ ops' = [ops EXCEPT ![t] = @ + 1]
  /\ UNCHANGED <<buf, driver, hardware, history>>

\* Mutant: a lock for each disk instead of one for the channel.
MutAcquire(t) ==
  /\ pc[t] = "lock" /\ (lock # NULL => req[lock].dev # req[t].dev)
  /\ lock' = t
  /\ Goto(t, "select")
  /\ UNCHANGED <<req, buf, ops, is_ata, expecting_interrupt, completion_wait, hardware, history>>

\* lock_acquire (&c->lock).
Acquire(t) ==
  /\ pc[t] = "lock" /\ lock = NULL
  /\ lock' = t
  /\ Goto(t, "select")
  /\ UNCHANGED <<req, buf, ops, is_ata, expecting_interrupt, completion_wait, hardware, history>>

Busy == drive.phase \in {"busy", "storing"}
DataRequest == drive.phase = "ready"

\* select_device_wait: wait_until_idle, before and after the selection.  Reading
\* the status clears a pending interrupt.
Select(t) ==
  /\ pc[t] = "select" /\ ~Busy /\ ~DataRequest
  /\ irq' = FALSE
  /\ selected' = req[t].dev
  /\ Goto(t, "issue")
  /\ UNCHANGED <<req, buf, ops, driver, attached, drive, media, machine, history>>

\* A turn of wait_until_idle that finds the channel busy.
Poll(t) ==
  /\ pc[t] = "select" /\ (Busy \/ DataRequest)
  /\ irq' = FALSE
  /\ UNCHANGED <<pc, req, buf, ops, driver, attached, selected, drive, media, machine, history>>

\* The rest of select_sector, and issue_pio_command.
issue_pio_command(t) ==
  /\ pc[t] = "issue"
  /\ expecting_interrupt' = TRUE
  /\ drive' = [phase |-> "busy", cmd |-> req[t].cmd, dev |-> selected, sec |-> req[t].sec,
               data |-> Empty]
  /\ Goto(t, IF req[t].cmd = "write" THEN "busy" ELSE "wait")
  /\ UNCHANGED <<req, buf, ops, is_ata, lock, completion_wait, attached, selected, irq, media,
                 machine, history>>

\* Mutant: disk_write does not wait for the drive to take the data.
MutWait(t) ==
  /\ pc[t] = "wait" /\ (completion_wait > 0 \/ req[t].cmd = "write")
  /\ completion_wait' = IF req[t].cmd = "write" THEN completion_wait ELSE completion_wait - 1
  /\ Goto(t, IF req[t].cmd = "write" THEN "release" ELSE "busy")
  /\ UNCHANGED <<req, buf, ops, is_ata, lock, expecting_interrupt, hardware, history>>

\* sema_down (&c->completion_wait).
Wait(t) ==
  /\ pc[t] = "wait" /\ completion_wait > 0
  /\ completion_wait' = completion_wait - 1
  /\ Goto(t, IF req[t].cmd = "write" THEN "release" ELSE "busy")
  /\ UNCHANGED <<req, buf, ops, is_ata, lock, expecting_interrupt, hardware, history>>

\* Mutant: the data are taken after the interrupt without a look at the status.
MutWaitWhileBusy(t) ==
  /\ pc[t] = "busy"
  /\ Goto(t, "transfer")
  /\ UNCHANGED <<req, buf, ops, driver, hardware, history>>

\* wait_while_busy; without DRQ a transfer fails (PANIC) and the device identified
\* is no disk.
wait_while_busy(t) ==
  /\ pc[t] = "busy" /\ ~Busy
  /\ IF DataRequest THEN Goto(t, "transfer") /\ UNCHANGED is_ata
     ELSE IF req[t].cmd = "identify"
     THEN Goto(t, "probe") /\ is_ata' = [is_ata EXCEPT ![req[t].dev] = FALSE]
     ELSE Goto(t, "failed") /\ UNCHANGED is_ata
  /\ UNCHANGED <<req, buf, ops, lock, expecting_interrupt, completion_wait, hardware, history>>

\* input_sector, or the capacity that identify_ata_device finds.
input_sector(t) ==
  /\ pc[t] = "transfer" /\ req[t].cmd # "write"
  /\ buf' = [buf EXCEPT ![t] = drive.data]
  /\ drive' = IdleDrive
  /\ Goto(t, IF req[t].cmd = "read" THEN "release" ELSE "probe")
  /\ UNCHANGED <<req, ops, driver, attached, selected, irq, media, machine, history>>

output_sector(t) ==
  /\ pc[t] = "transfer" /\ req[t].cmd = "write"
  /\ drive' = [drive EXCEPT !.phase = "storing", !.data = <<t, ops[t]>>]
  /\ logical' = [logical EXCEPT ![req[t].dev][req[t].sec] = <<t, ops[t]>>]
  /\ Goto(t, "wait")
  /\ UNCHANGED <<req, buf, ops, driver, attached, selected, irq, media, machine, spurious>>

Release(t) ==
  /\ pc[t] = "release"
  /\ lock' = NULL
  /\ Goto(t, "idle")
  /\ req' = [req EXCEPT ![t] = NoRequest]
  /\ buf' = [buf EXCEPT ![t] = Empty]
  /\ UNCHANGED <<ops, is_ata, expecting_interrupt, completion_wait, hardware, history>>

-----------------------------------------------------------------------------
(* The drive and its interrupts.                                           *)

\* The drive finishes what it was told to do.
Drive ==
  /\ Busy
  /\ IF drive.cmd = "write" /\ drive.phase = "busy"
     THEN /\ drive' = [drive EXCEPT !.phase = "ready"]
          /\ UNCHANGED <<irq, media>>
     ELSE /\ irq' = TRUE
          /\ IF drive.cmd = "write"
             THEN /\ media' = [media EXCEPT ![drive.dev][drive.sec] = drive.data]
                  /\ drive' = IdleDrive
             ELSE /\ drive' = IF attached[drive.dev] = "mute" THEN IdleDrive
                      ELSE [drive EXCEPT !.phase = "ready",
                        !.data = IF drive.cmd = "read" THEN media[drive.dev][drive.sec] ELSE Empty]
                  /\ UNCHANGED media
  /\ UNCHANGED <<pc, req, buf, ops, driver, attached, selected, machine, history>>

Spurious ==
  /\ spurious < MaxSpurious
  /\ irq' = TRUE
  /\ spurious' = spurious + 1
  /\ UNCHANGED <<pc, req, buf, ops, driver, attached, selected, drive, media, machine, logical>>

\* interrupt_handler.  expecting_interrupt is never reset.  When sema_up wakes a
\* thread, thread_unblock yields unless the interrupted thread is the idle thread
\* or has a higher priority, and yielding in a handler is a panic.
interrupt_handler ==
  /\ irq
  /\ irq' = FALSE
  /\ completion_wait' = IF expecting_interrupt THEN completion_wait + 1 ELSE completion_wait
  /\ \/ UNCHANGED machine
     \/ /\ expecting_interrupt /\ completion_wait = 0 /\ \E t \in Threads : pc[t] = "wait"
        /\ machine' = "panic"
  /\ UNCHANGED <<pc, req, buf, ops, is_ata, lock, expecting_interrupt, attached, selected,
                 drive, media, history>>

Step(t) ==
  \/ Acquire(t) \/ Select(t) \/ Poll(t) \/ issue_pio_command(t) \/ Wait(t)
  \/ wait_while_busy(t) \/ input_sector(t) \/ output_sector(t) \/ Release(t)

On(A) == machine = "on" /\ A

Next ==
  /\ machine = "on"
  /\ \/ Detect \/ Identify
     \/ \E t \in Threads : Step(t)
     \/ \E t \in Threads, cmd \in {"read", "write"}, d \in Devs, s \in Sectors :
          Request(t, cmd, d, s)
     \/ Drive \/ Spurious \/ interrupt_handler

\* The drive answers, interrupts are taken, and a thread that can go on does:
\* the scheduler runs every ready thread.
Fairness ==
  /\ WF_vars(On(Drive)) /\ WF_vars(On(interrupt_handler))
  /\ WF_vars(On(Detect)) /\ WF_vars(On(Identify))
  /\ \A t \in Threads : WF_vars(On(Step(t)))

Spec == Init /\ [][Next]_vars /\ Fairness

-----------------------------------------------------------------------------
(* Properties.                                                             *)

\* The types of the variables.
TypeOK ==
  /\ pc \in [Threads -> {"boot", "check", "probe", "idle", "lock", "select", "issue", "wait",
                         "busy", "transfer", "release", "failed"}]
  /\ req \in [Threads -> [cmd : {NULL, "read", "write", "identify"}, dev : Devs,
                          sec : Sectors \cup {NULL}]]
  /\ buf \in [Threads -> Values] /\ ops \in [Threads -> 0..MaxOps]
  /\ is_ata \in [Devs -> BOOLEAN] /\ lock \in Threads \cup {NULL}
  /\ completion_wait \in 0..MaxSpurious+1 /\ selected \in Devs /\ machine \in {"on", "panic"}
  /\ media \in [Devs -> [Sectors -> Values]] /\ logical \in [Devs -> [Sectors -> Values]]

\* A read returns what was last written to the sector, also when interrupts that
\* nobody asked for let the driver go on before the drive was done.
ReadsLastWrite ==
  \A t \in Threads : pc[t] = "release" /\ req[t].cmd = "read"
                       => buf[t] = logical[req[t].dev][req[t].sec]

\* disk_write returns after the drive stored the data, and leaves no interrupt
\* and no completion behind for the next request, as long as every interrupt was
\* asked for.
CleanHandover ==
  spurious = 0 =>
    /\ lock = NULL /\ (\A t \in Threads : pc[t] \in {"idle", "lock"})
         => completion_wait = 0 /\ ~irq /\ drive = IdleDrive /\ media = logical
    /\ \A t \in Threads : pc[t] = "release" /\ req[t].cmd = "write"
                            => media[req[t].dev][req[t].sec] = logical[req[t].dev][req[t].sec]

\* No transfer fails for want of DRQ, and only disks are ever asked.
NeverFails ==
  /\ \A t \in Threads : pc[t] # "failed"
  /\ drive.cmd \in {"read", "write"} => attached[drive.dev] = "ata"

\* A thread that waits for the drive is woken, unless waking it panics: its
\* interrupt is not lost, nor cleared by the status reads of another, nor
\* swallowed as unexpected.
Answered == \A t \in Threads : pc[t] = "wait" ~> pc[t] # "wait" \/ machine = "panic"

=============================================================================
