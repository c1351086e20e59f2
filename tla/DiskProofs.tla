----------------------------- MODULE DiskProofs -----------------------------
(***************************************************************************)
(* Proofs about Disk, for any number of threads, sectors, requests and     *)
(* interrupts that nobody asked for: a read returns what was last written, *)
(* no transfer fails, and the channel is handed over clean.                *)
(*                                                                         *)
(* The invariant says who may work on the channel (Alone), what the drive  *)
(* does while a thread is at each place of the driver (DriveFits), that    *)
(* media and what was written differ at most where the drive is storing    *)
(* (Stored), and what detection knows of the devices (Known).  For the     *)
(* handover it also accounts for every interrupt (Quiet).                  *)
(***************************************************************************)
EXTENDS Disk, TLAPS

Active == {"select", "issue", "wait", "busy", "transfer", "release"}
Places == {"boot", "check", "probe", "idle", "lock", "failed"} \cup Active

Types ==
  /\ pc \in [Threads -> Places]
  /\ req \in [Threads -> [cmd : {NULL, "read", "write", "identify"}, dev : Devs,
                          sec : Sectors \cup {NULL}]]
  /\ drive \in [phase : {"idle", "busy", "ready", "storing"},
                cmd : {NULL, "read", "write", "identify"}, dev : Devs,
                sec : Sectors \cup {NULL}, data : Values]
  /\ buf \in [Threads -> Values] /\ ops \in [Threads -> 0..MaxOps]
  /\ attached \in [Devs -> Kinds] /\ is_ata \in [Devs -> BOOLEAN]
  /\ lock \in Threads \cup {NULL} /\ selected \in Devs
  /\ media \in [Devs -> [Sectors -> Values]] /\ logical \in [Devs -> [Sectors -> Values]]

Transfers(r) == r.cmd \in {"read", "write"}

\* A thread is at work only with the channel's lock, or while main detects the
\* devices and nobody else has started.
Alone ==
  /\ \A t \in Threads : pc[t] \in Active => req[t].cmd # NULL
  /\ \A t \in Threads : pc[t] \in Active /\ Transfers(req[t]) => lock = t
  /\ \A t \in Threads : pc[t] \in {"check", "probe"} \/ req[t].cmd = "identify"
       => t = main /\ lock = NULL /\ \A u \in Threads \ {main} : pc[u] = "boot"
  /\ \A t \in Threads : pc[t] \in {"boot", "check", "idle"} => req[t].cmd = NULL
  /\ \A t \in Threads : pc[t] \in {"lock", "release"} => Transfers(req[t])
  /\ \A t \in Threads : Transfers(req[t]) => req[t].sec \in Sectors /\ ops[t] > 0
  /\ \A t \in Threads : pc[t] = "probe" => ~Transfers(req[t])

\* The drive works on the request of t.
WorksOn(t) == drive.cmd = req[t].cmd /\ drive.dev = req[t].dev /\ drive.sec = req[t].sec

\* What the drive does while a thread is at each place.
DriveFits ==
  /\ \A t \in Threads :
       /\ pc[t] = "issue" => drive.phase = "idle" /\ selected = req[t].dev
       /\ pc[t] = "busy" \/ (pc[t] = "wait" /\ req[t].cmd # "write")
            => \/ drive.phase \in {"busy", "ready"} /\ WorksOn(t)
               \/ drive.phase = "idle" /\ req[t].cmd = "identify"
       /\ pc[t] = "transfer" => drive.phase = "ready" /\ WorksOn(t)
       /\ pc[t] \in {"select", "release"} \/ (pc[t] = "wait" /\ req[t].cmd = "write")
            => drive.phase \in {"idle", "storing"}
  /\ (\A t \in Threads : pc[t] \notin Active) => drive.phase \in {"idle", "storing"}

\* The disks hold what was written, up to the sector that the drive is storing.
Stored ==
  /\ \A d \in Devs, s \in Sectors :
       media[d][s] # logical[d][s]
         => drive.phase = "storing" /\ drive.dev = d /\ drive.sec = s
  /\ drive.phase = "storing" => drive.cmd = "write" /\ drive.data = logical[drive.dev][drive.sec]
  /\ drive.phase = "ready" /\ drive.cmd = "read" => drive.data = logical[drive.dev][drive.sec]
  /\ drive.cmd \in {"read", "write"} => drive.sec \in Sectors

\* The devices that main has identified.
Identified(d) ==
  /\ pc[main] # "check"
  /\ pc[main] = "probe" => req[main].cmd = "identify" /\ d <= req[main].dev
  /\ req[main].cmd = "identify" /\ pc[main] # "probe" => d < req[main].dev

\* What detection knows, and that only identified disks are used.
Known ==
  /\ \A d \in Devs : is_ata[d] => pc[main] # "check" /\ attached[d] \in {"ata", "mute"}
  /\ \A d \in Devs : is_ata[d] /\ Identified(d) => attached[d] = "ata"
  /\ \A t \in Threads : Transfers(req[t]) => attached[req[t].dev] = "ata"
  /\ \A t \in Threads : pc[t] \in Active /\ req[t].cmd = "identify" => is_ata[req[t].dev]
  /\ drive.cmd \in {"read", "write"} => attached[drive.dev] = "ata"
  /\ drive.cmd = "identify" /\ drive.phase = "ready" => attached[drive.dev] # "mute"
  /\ \A t \in Threads : pc[t] # "failed"

IInv == Types /\ Alone /\ DriveFits /\ Stored /\ ReadsLastWrite /\ Known

\* As long as every interrupt was asked for: an interrupt or a completion is
\* there only for a thread in sema_down whose command the drive has carried out,
\* and then there is exactly one of the two.
Quiet ==
  spurious = 0 =>
    /\ drive.phase = "idle" => drive = IdleDrive
    /\ irq \/ completion_wait # 0 => \E t \in Threads : pc[t] = "wait"
    /\ \A t \in Threads :
         /\ pc[t] \in {"wait", "busy", "transfer"} => expecting_interrupt
         /\ pc[t] = "wait" /\ Busy => ~irq /\ completion_wait = 0
         /\ pc[t] = "wait" /\ ~Busy => (irq <=> completion_wait = 0)
         /\ pc[t] = "busy" /\ req[t].cmd # "write" => ~Busy
         /\ pc[t] \in {"select", "release"} => drive.phase = "idle"
    /\ (\A t \in Threads : pc[t] \notin Active) => drive.phase = "idle"

\* The types of what the interrupt handler works on.
Counts == irq \in BOOLEAN /\ completion_wait \in Nat /\ spurious \in Nat
          /\ (completion_wait \in {0, 1} \/ spurious # 0)

USE DiskAssumption DEF Devs, Active, Places, Transfers, WorksOn, Goto, driver, hardware, history

\* What check_device_type takes for a disk looks like one.
LEMMA CheckedType ==
  ASSUME NEW k \in Kinds, NEW dev \in Devs
  PROVE  /\ check_device_type(Registers(k, dev), dev).is_ata \in BOOLEAN
         /\ check_device_type(Registers(k, dev), dev).slave \in BOOLEAN
         /\ check_device_type(Registers(k, dev), dev).is_ata => k \in {"ata", "mute"}
<1>1. CASE k \in {"ata", "mute"}
  BY <1>1, Zenon DEF check_device_type, Registers
<1>2. CASE k = "atapi"
  BY <1>2 DEF check_device_type, Registers
<1>3. CASE k = "absent"
  BY <1>3 DEF check_device_type, Registers
<1> QED BY <1>1, <1>2, <1>3

\* A new request of disk_read or disk_write disturbs nothing: the channel is not taken yet.
LEMMA RequestKeeps ==
  ASSUME NEW t \in Threads, NEW cmd \in {"read", "write"}, NEW d \in Devs, NEW s \in Sectors, IInv, Request(t, cmd, d, s)
  PROVE  IInv'
<1>1. Types'
  BY DEF IInv, Types, Request
<1>2. Alone'
  BY DEF IInv, Types, Alone, Request
<1>3. DriveFits'
  BY DEF IInv, Types, Alone, DriveFits, Request
<1>4. Stored'
  BY DEF IInv, Types, Alone, DriveFits, Stored, Request
<1>5. ReadsLastWrite'
  BY DEF IInv, Types, Alone, DriveFits, Stored, ReadsLastWrite, Request
<1>6. Known'
  BY DEF IInv, Types, Alone, DriveFits, Known, Identified, Request
<1> QED BY <1>1, <1>2, <1>3, <1>4, <1>5, <1>6 DEF IInv

\* lock_acquire: the one thread between lock and release is the holder.
LEMMA AcquireKeeps ==
  ASSUME NEW t \in Threads, IInv, Acquire(t)
  PROVE  IInv'
<1>1. Types'
  BY DEF IInv, Types, Acquire
<1>2. Alone'
  BY DEF IInv, Types, Alone, Acquire
<1>3. DriveFits'
  BY DEF IInv, Types, Alone, DriveFits, Acquire
<1>4. Stored'
  BY DEF IInv, Types, Alone, DriveFits, Stored, Acquire
<1>5. ReadsLastWrite'
  BY DEF IInv, Types, Alone, DriveFits, Stored, ReadsLastWrite, Acquire
<1>6. Known'
  BY DEF IInv, Types, Alone, DriveFits, Known, Identified, Acquire
<1> QED BY <1>1, <1>2, <1>3, <1>4, <1>5, <1>6 DEF IInv

\* select_device_wait leaves the drive idle and any pending interrupt cleared.
LEMMA SelectKeeps ==
  ASSUME NEW t \in Threads, IInv, Select(t)
  PROVE  IInv'
<1>1. Types'
  BY DEF IInv, Types, Select, Busy, DataRequest
<1>2. Alone'
  BY DEF IInv, Types, Alone, Select, Busy, DataRequest
<1>3. DriveFits'
  BY DEF IInv, Types, Alone, DriveFits, Select, Busy, DataRequest
<1>4. Stored'
  BY DEF IInv, Types, Alone, DriveFits, Stored, Select, Busy, DataRequest
<1>5. ReadsLastWrite'
  BY DEF IInv, Types, Alone, DriveFits, Stored, ReadsLastWrite, Select, Busy, DataRequest
<1>6. Known'
  BY DEF IInv, Types, Alone, DriveFits, Known, Identified, Select, Busy, DataRequest
<1> QED BY <1>1, <1>2, <1>3, <1>4, <1>5, <1>6 DEF IInv

\* A turn of wait_until_idle clears a pending interrupt and nothing else.
LEMMA PollKeeps ==
  ASSUME NEW t \in Threads, IInv, Poll(t)
  PROVE  IInv'
<1>1. Types'
  BY DEF IInv, Types, Poll
<1>2. Alone'
  BY DEF IInv, Types, Alone, Poll
<1>3. DriveFits'
  BY DEF IInv, Types, Alone, DriveFits, Poll
<1>4. Stored'
  BY DEF IInv, Types, Alone, DriveFits, Stored, Poll
<1>5. ReadsLastWrite'
  BY DEF IInv, Types, Alone, DriveFits, Stored, ReadsLastWrite, Poll
<1>6. Known'
  BY DEF IInv, Types, Alone, DriveFits, Known, Identified, Poll
<1> QED BY <1>1, <1>2, <1>3, <1>4, <1>5, <1>6 DEF IInv

\* issue_pio_command gives the drive exactly the request of the holder.
LEMMA IssueKeeps ==
  ASSUME NEW t \in Threads, IInv, issue_pio_command(t)
  PROVE  IInv'
<1>1. Types'
  BY DEF IInv, Types, issue_pio_command, Values, Empty
<1>2. Alone'
  BY DEF IInv, Types, Alone, issue_pio_command, Values, Empty
<1>3. DriveFits'
  BY DEF IInv, Types, Alone, DriveFits, issue_pio_command, Values, Empty
<1>4. Stored'
  BY DEF IInv, Types, Alone, DriveFits, Stored, issue_pio_command, Values, Empty
<1>5. ReadsLastWrite'
  BY DEF IInv, Types, Alone, DriveFits, Stored, ReadsLastWrite, issue_pio_command, Values, Empty
<1>6. Known'
  BY DEF IInv, Types, Alone, DriveFits, Known, Identified, issue_pio_command, Values, Empty
<1> QED BY <1>1, <1>2, <1>3, <1>4, <1>5, <1>6 DEF IInv

\* sema_down on completion_wait takes one completion and moves the holder on.
LEMMA WaitKeeps ==
  ASSUME NEW t \in Threads, IInv, Wait(t)
  PROVE  IInv'
<1>1. Types'
  BY DEF IInv, Types, Wait
<1>2. Alone'
  BY DEF IInv, Types, Alone, Wait
<1>3. DriveFits'
  BY DEF IInv, Types, Alone, DriveFits, Wait
<1>4. Stored'
  BY DEF IInv, Types, Alone, DriveFits, Stored, Wait
<1>5. ReadsLastWrite'
  BY DEF IInv, Types, Alone, DriveFits, Stored, ReadsLastWrite, Wait
<1>6. Known'
  BY DEF IInv, Types, Alone, DriveFits, Known, Identified, Wait
<1> QED BY <1>1, <1>2, <1>3, <1>4, <1>5, <1>6 DEF IInv

\* wait_while_busy lets the holder on only when the drive asks for data, whatever woke it.
LEMMA WaitWhileBusyKeeps ==
  ASSUME NEW t \in Threads, IInv, wait_while_busy(t)
  PROVE  IInv'
<1>1. Types'
  <2>1. is_ata' \in [Devs -> BOOLEAN]
    <3>1. is_ata' = is_ata \/ is_ata' = [is_ata EXCEPT ![req[t].dev] = FALSE]
      BY DEF wait_while_busy
    <3>2. req[t].dev \in Devs /\ is_ata \in [Devs -> BOOLEAN]
      BY DEF IInv, Types
    <3>3. [is_ata EXCEPT ![req[t].dev] = FALSE] \in [Devs -> BOOLEAN]
      BY <3>2, Zenon
    <3> QED BY <3>1, <3>2, <3>3, Zenon
  <2>2. pc' \in [Threads -> Places]
    <3>1. \/ pc' = [pc EXCEPT ![t] = "transfer"]
          \/ pc' = [pc EXCEPT ![t] = "probe"]
          \/ pc' = [pc EXCEPT ![t] = "failed"]
      BY Zenon DEF wait_while_busy
    <3>2. pc \in [Threads -> Places]
      BY Zenon DEF IInv, Types
    <3>3. "transfer" \in Places /\ "probe" \in Places /\ "failed" \in Places
      OBVIOUS
    <3> QED BY <3>1, <3>2, <3>3, Zenon
  <2> QED BY <2>1, <2>2 DEF IInv, Types, wait_while_busy
<1>2. Alone'
  BY DEF IInv, Types, Alone, wait_while_busy, Busy, DataRequest
<1>3. DriveFits'
  BY DEF IInv, Types, Alone, DriveFits, wait_while_busy, Busy, DataRequest
<1>4. Stored'
  BY DEF IInv, Types, Alone, DriveFits, Stored, wait_while_busy, Busy, DataRequest
<1>5. ReadsLastWrite'
  BY DEF IInv, Types, Alone, DriveFits, Stored, ReadsLastWrite, wait_while_busy, Busy, DataRequest
<1>6. Known'
  BY DEF IInv, Types, Alone, DriveFits, Known, Identified, wait_while_busy, Busy, DataRequest
<1> QED BY <1>1, <1>2, <1>3, <1>4, <1>5, <1>6 DEF IInv

\* input_sector takes the data the drive read for this request.
LEMMA InputKeeps ==
  ASSUME NEW t \in Threads, IInv, input_sector(t)
  PROVE  IInv'
<1>1. Types'
  BY DEF IInv, Types, input_sector, IdleDrive, Values, Empty
<1>2. Alone'
  BY DEF IInv, Types, Alone, input_sector, IdleDrive, Values, Empty
<1>3. DriveFits'
  BY DEF IInv, Types, Alone, DriveFits, input_sector, IdleDrive, Values, Empty
<1>4. Stored'
  BY DEF IInv, Types, Alone, DriveFits, Stored, input_sector, IdleDrive, Values, Empty
<1>5. ReadsLastWrite'
  BY DEF IInv, Types, Alone, DriveFits, Stored, ReadsLastWrite, input_sector, IdleDrive, Values, Empty
<1>6. Known'
  BY DEF IInv, Types, Alone, DriveFits, Known, Identified, input_sector, IdleDrive, Values, Empty
<1> QED BY <1>1, <1>2, <1>3, <1>4, <1>5, <1>6 DEF IInv

\* output_sector hands over the data of this request, which become the last written.
LEMMA OutputKeeps ==
  ASSUME NEW t \in Threads, IInv, output_sector(t)
  PROVE  IInv'
<1>1. Types'
  <2>1. <<t, ops[t]>> \in Values
    BY DEF IInv, Types, Alone, output_sector, Values
  <2>2. logical' \in [Devs -> [Sectors -> Values]]
    BY <2>1 DEF IInv, Types, Alone, output_sector
  <2>3. drive' \in [phase : {"idle", "busy", "ready", "storing"},
                   cmd : {NULL, "read", "write", "identify"}, dev : Devs,
                   sec : Sectors \cup {NULL}, data : Values]
    BY <2>1, Zenon DEF IInv, Types, output_sector
  <2>4. pc' \in [Threads -> Places]
    BY DEF IInv, Types, output_sector
  <2> QED BY <2>2, <2>3, <2>4 DEF IInv, Types, output_sector
<1>2. Alone'
  BY DEF IInv, Types, Alone, output_sector, Values
<1>3. DriveFits'
  BY DEF IInv, Types, Alone, DriveFits, output_sector, Values
<1>4. Stored'
  BY DEF IInv, Types, Alone, DriveFits, Stored, output_sector, Values
<1>5. ReadsLastWrite'
  BY DEF IInv, Types, Alone, DriveFits, Stored, ReadsLastWrite, output_sector, Values
<1>6. Known'
  BY DEF IInv, Types, Alone, DriveFits, Known, Identified, output_sector, Values
<1> QED BY <1>1, <1>2, <1>3, <1>4, <1>5, <1>6 DEF IInv

\* lock_release leaves the drive to the next request.
LEMMA ReleaseKeeps ==
  ASSUME NEW t \in Threads, IInv, Release(t)
  PROVE  IInv'
<1>1. Types'
  BY DEF IInv, Types, Release, NoRequest, Values, Empty
<1>2. Alone'
  BY DEF IInv, Types, Alone, Release, NoRequest, Values, Empty
<1>3. DriveFits'
  BY DEF IInv, Types, Alone, DriveFits, Release, NoRequest, Values, Empty
<1>4. Stored'
  BY DEF IInv, Types, Alone, DriveFits, Stored, Release, NoRequest, Values, Empty
<1>5. ReadsLastWrite'
  BY DEF IInv, Types, Alone, DriveFits, Stored, ReadsLastWrite, Release, NoRequest, Values, Empty
<1>6. Known'
  BY DEF IInv, Types, Alone, DriveFits, Known, Identified, Release, NoRequest, Values, Empty
<1> QED BY <1>1, <1>2, <1>3, <1>4, <1>5, <1>6 DEF IInv

\* The detection in disk_init marks only what looks like a disk.
LEMMA DetectKeeps ==
  ASSUME IInv, Detect
  PROVE  IInv'
<1>1. Types'
  <2>1. is_ata' \in [Devs -> BOOLEAN]
    BY CheckedType, Zenon DEF IInv, Types, Detect
  <2> QED BY <2>1 DEF IInv, Types, Detect
<1>2. Alone'
  BY DEF IInv, Types, Alone, Detect
<1>3. DriveFits'
  BY DEF IInv, Types, Alone, DriveFits, Detect
<1>4. Stored'
  BY DEF IInv, Types, Alone, DriveFits, Stored, Detect
<1>5. ReadsLastWrite'
  BY DEF IInv, Types, Alone, DriveFits, Stored, ReadsLastWrite, Detect
<1>6. Known'
  <2>1. \A d \in Devs : is_ata'[d] => attached[d] \in {"ata", "mute"}
    BY CheckedType, Zenon DEF IInv, Types, Detect
  <2>2. req[main].cmd = NULL /\ pc'[main] = "probe"
    BY DEF IInv, Types, Alone, Detect
  <2>3. \A d \in Devs : ~Identified(d)'
    BY <2>2 DEF IInv, Types, Detect, Identified
  <2>4. ~(drive.cmd = "identify" /\ drive.phase = "ready")
    BY DEF IInv, Types, Alone, DriveFits, Detect
  <2> QED BY <2>1, <2>2, <2>3, <2>4 DEF IInv, Types, Alone, Known, Detect
<1> QED BY <1>1, <1>2, <1>3, <1>4, <1>5, <1>6 DEF IInv

\* disk_init identifies the next disk, or is done and the threads may start.
LEMMA IdentifyKeeps ==
  ASSUME IInv, Identify
  PROVE  IInv'
<1> DEFINE left == IF req[main].cmd = NULL THEN {d \in Devs : is_ata[d]}
                   ELSE {d \in Devs : is_ata[d] /\ d > req[main].dev}
<1>1. /\ pc[main] = "probe"
      /\ UNCHANGED <<buf, ops, is_ata, lock, attached, selected, drive, media, logical>>
  BY DEF Identify
<1>2. /\ req[main].cmd \in {NULL, "identify"} /\ lock = NULL
      /\ \A u \in Threads \ {main} : pc[u] = "boot" /\ req[u].cmd = NULL
  BY <1>1 DEF IInv, Types, Alone
<1>3. CASE left = {}
  <2>1. pc' = [t \in Threads |-> "idle"] /\ req' = [req EXCEPT ![main] = NoRequest]
    BY <1>3 DEF Identify
  <2>2. \A d \in Devs : is_ata[d] => attached[d] = "ata"
    <3> SUFFICES ASSUME NEW d \in Devs, is_ata[d]
                 PROVE  attached[d] = "ata"
      OBVIOUS
    <3>1. d \notin left
      BY <1>3
    <3>2. req[main].cmd = "identify" /\ d <= req[main].dev
      BY <1>2, <3>1 DEF IInv, Types
    <3> QED BY <1>1, <3>2 DEF IInv, Known, Identified
  <2>3. Types'
    BY <1>1, <2>1, Zenon DEF IInv, Types, NoRequest
  <2>4. Alone' /\ DriveFits' /\ Stored' /\ ReadsLastWrite'
    BY <1>1, <1>2, <2>1 DEF IInv, Types, Alone, DriveFits, Stored, ReadsLastWrite, NoRequest
  <2>5. Known'
    BY <1>1, <1>2, <2>1, <2>2 DEF IInv, Types, Alone, Known, NoRequest
  <2> QED BY <2>3, <2>4, <2>5 DEF IInv
<1>4. CASE left # {}
  <2> DEFINE dev == CHOOSE d \in left : \A e \in left : d <= e
  <2>1. dev \in left /\ \A e \in left : dev <= e
    <3>1. \E d \in left : \A e \in left : d <= e
      <4>1. CASE 0 \in left
        BY <4>1
      <4>2. CASE 0 \notin left
        BY <1>4, <4>2
      <4> QED BY <4>1, <4>2
    <3> HIDE DEF left
    <3> QED BY <3>1
  <2>2. /\ pc' = [pc EXCEPT ![main] = "select"]
        /\ req' = [req EXCEPT ![main] = [cmd |-> "identify", dev |-> dev, sec |-> NULL]]
    BY <1>4 DEF Identify
  <2>3. /\ dev \in Devs /\ is_ata[dev]
        /\ \A d \in Devs : is_ata[d] /\ d < dev => attached[d] = "ata"
    <3>1. dev \in Devs /\ is_ata[dev]
      BY <2>1
    <3>2. ASSUME NEW d \in Devs, is_ata[d], d < dev
          PROVE  attached[d] = "ata"
      <4> HIDE DEF dev
      <4>1. d \notin left
        BY <2>1, <3>1, <3>2
      <4>2. req[main].cmd = "identify" /\ d <= req[main].dev
        BY <1>2, <3>2, <4>1 DEF IInv, Types
      <4> QED BY <1>1, <3>2, <4>2 DEF IInv, Known, Identified
    <3> QED BY <3>1, <3>2
  <2> HIDE DEF left, dev
  <2>4. Types'
    BY <1>1, <2>2, <2>3, Zenon DEF IInv, Types
  <2>5. Alone' /\ DriveFits' /\ Stored' /\ ReadsLastWrite'
    BY <1>1, <1>2, <2>2, <2>3 DEF IInv, Types, Alone, DriveFits, Stored, ReadsLastWrite
  <2>6. Known'
    BY <1>1, <1>2, <2>2, <2>3 DEF IInv, Types, Alone, Known, Identified
  <2> QED BY <2>4, <2>5, <2>6 DEF IInv
<1> QED BY <1>3, <1>4

\* The drive carries out its command: it fetches the sector, takes the data or stores them.
LEMMA DriveKeeps ==
  ASSUME IInv, Drive
  PROVE  IInv'
<1>1. /\ drive.phase \in {"busy", "storing"}
      /\ UNCHANGED <<pc, req, buf, ops, is_ata, lock, attached, selected, logical>>
  BY DEF Drive, Busy
<1>2. CASE drive.cmd = "write" /\ drive.phase = "busy"
  <2>1. media' = media /\ drive' = [drive EXCEPT !.phase = "ready"]
    BY <1>2 DEF Drive
  <2>2. /\ drive'.phase = "ready" /\ drive'.cmd = drive.cmd /\ drive'.dev = drive.dev
        /\ drive'.sec = drive.sec /\ drive'.data = drive.data
    BY <2>1 DEF IInv, Types
  <2>3. Types'
    BY <1>1, <2>1, Zenon DEF IInv, Types
  <2>4. Alone' /\ ReadsLastWrite'
    BY <1>1, Zenon DEF IInv, Alone, ReadsLastWrite
  <2>5. DriveFits'
    BY <1>1, <1>2, <2>2 DEF IInv, Types, Alone, DriveFits
  <2>6. Stored' /\ Known'
    BY <1>1, <1>2, <2>1, <2>2 DEF IInv, Types, Stored, Known, Identified
  <2> QED BY <2>3, <2>4, <2>5, <2>6 DEF IInv
<1>3. CASE drive.phase = "storing"
  <2>1. /\ media' = [media EXCEPT ![drive.dev][drive.sec] = drive.data]
        /\ drive' = IdleDrive
    BY <1>3 DEF Drive, IInv, Stored
  <2>2. drive.dev \in Devs /\ drive.sec \in Sectors /\ drive.data = logical[drive.dev][drive.sec]
    BY <1>3 DEF IInv, Types, Stored
  <2>3. \A d \in Devs, s \in Sectors : media'[d][s] = logical[d][s]
    BY <1>3, <2>1, <2>2 DEF IInv, Types, Stored
  <2>4. Types'
    BY <1>1, <2>1, <2>2, Zenon DEF IInv, Types, IdleDrive, Values, Empty
  <2>5. Alone' /\ ReadsLastWrite'
    BY <1>1, Zenon DEF IInv, Alone, ReadsLastWrite
  <2>6. DriveFits' /\ Stored' /\ Known'
    BY <1>1, <1>3, <2>1, <2>3
    DEF IInv, Types, Alone, DriveFits, Stored, Known, Identified, IdleDrive
  <2> QED BY <2>4, <2>5, <2>6 DEF IInv
<1>4. CASE drive.phase = "busy" /\ drive.cmd # "write"
  <2>1. media' = media
    BY <1>4 DEF Drive
  <2>2. Alone' /\ ReadsLastWrite'
    BY <1>1 DEF IInv, Alone, ReadsLastWrite
  <2>3. CASE attached[drive.dev] = "mute"
    <3>1. drive' = IdleDrive
      BY <1>4, <2>3, Zenon DEF Drive
    <3>2. Types'
      BY <1>1, <2>1, <3>1, Zenon DEF IInv, Types, IdleDrive, Values, Empty
    <3>3. drive.cmd # "read"
      BY <2>3, Zenon DEF IInv, Known
    <3>4. DriveFits' /\ Stored' /\ Known'
      BY <1>1, <1>4, <2>1, <3>1, <3>3
      DEF IInv, Types, Alone, DriveFits, Stored, Known, Identified, IdleDrive
    <3> QED BY <2>2, <3>2, <3>4 DEF IInv
  <2>4. CASE attached[drive.dev] # "mute"
    <3> DEFINE data == IF drive.cmd = "read" THEN media[drive.dev][drive.sec] ELSE Empty
    <3>1. drive' = [drive EXCEPT !.phase = "ready", !.data = data]
      BY <1>4, <2>4 DEF Drive
    <3>2. data \in Values /\ (drive.cmd = "read" => data = logical[drive.dev][drive.sec])
      <4>1. CASE drive.cmd = "read"
        <5>1. drive.dev \in Devs /\ drive.sec \in Sectors
          BY <4>1 DEF IInv, Types, Stored
        <5>2. media[drive.dev][drive.sec] = logical[drive.dev][drive.sec]
          BY <1>4, <5>1 DEF IInv, Stored
        <5> QED BY <4>1, <5>1, <5>2, Zenon DEF IInv, Types
      <4>2. CASE drive.cmd # "read"
        BY <4>2 DEF Values
      <4> QED BY <4>1, <4>2
    <3> HIDE DEF data
    <3>3. /\ drive'.phase = "ready" /\ drive'.cmd = drive.cmd /\ drive'.dev = drive.dev
          /\ drive'.sec = drive.sec /\ drive'.data = data
      BY <3>1 DEF IInv, Types
    <3>4. Types'
      BY <1>1, <2>1, <3>1, <3>2, Zenon DEF IInv, Types
    <3>5. DriveFits'
      BY <1>1, <1>4, <3>3 DEF IInv, Types, Alone, DriveFits
    <3>6. Stored' /\ Known'
      BY <1>1, <1>4, <2>1, <2>4, <3>2, <3>3 DEF IInv, Types, Stored, Known, Identified
    <3> QED BY <2>2, <3>4, <3>5, <3>6 DEF IInv
  <2> QED BY <2>3, <2>4
<1> QED BY <1>1, <1>2, <1>3, <1>4

-----------------------------------------------------------------------------
\* The invariant holds before disk_init has looked at the channel.
LEMMA InitHolds == Init => IInv
<1> SUFFICES ASSUME Init
             PROVE  IInv
  OBVIOUS
<1>1. Types
  BY DEF Init, Types, Values, Empty, NoRequest, IdleDrive
<1>2. Alone
  BY DEF Init, Alone, NoRequest
<1>3. DriveFits /\ Stored /\ ReadsLastWrite
  BY DEF Init, DriveFits, Stored, ReadsLastWrite, NoRequest, IdleDrive
<1>4. Known
  BY DEF Init, Known, NoRequest, IdleDrive
<1> QED BY <1>1, <1>2, <1>3, <1>4 DEF IInv

\* A step that changes nothing keeps the invariant.
LEMMA StutterKeeps ==
  ASSUME IInv,
         UNCHANGED <<pc, req, buf, ops, is_ata, lock, attached, selected, drive, media, logical>>
  PROVE  IInv'
<1>1. Types' /\ Alone'
  BY Zenon DEF IInv, Types, Alone
<1>2. DriveFits'
  BY Zenon DEF IInv, DriveFits
<1>3. Stored' /\ ReadsLastWrite'
  BY Zenon DEF IInv, Stored, ReadsLastWrite
<1>4. Known'
  BY Zenon DEF IInv, Known, Identified
<1> QED BY <1>1, <1>2, <1>3, <1>4, Zenon DEF IInv

\* The invariant holds in every reachable state: IInv is inductive.
THEOREM DriverInvariant == Spec => []IInv
<1>1. Init => IInv
  BY InitHolds
<1>2. IInv /\ [Next]_vars => IInv'
  <2> SUFFICES ASSUME IInv, [Next]_vars
               PROVE  IInv'
    OBVIOUS
  <2>1. ASSUME NEW t \in Threads, Step(t)
        PROVE  IInv'
    BY <2>1, AcquireKeeps, SelectKeeps, PollKeeps, IssueKeeps, WaitKeeps, WaitWhileBusyKeeps,
       InputKeeps, OutputKeeps, ReleaseKeeps DEF Step
  <2>2. CASE Spurious \/ interrupt_handler \/ UNCHANGED vars
    BY <2>2, StutterKeeps DEF Spurious, interrupt_handler, vars
  <2> QED
    BY <2>1, <2>2, DetectKeeps, IdentifyKeeps, RequestKeeps, DriveKeeps DEF Next
<1> QED BY <1>1, <1>2, PTL DEF Spec

\* disk_read: for any number of threads, requests and stray interrupts, a read
\* returns what was last written to the sector.
THEOREM ReadsAreExact == Spec => []ReadsLastWrite
<1>1. IInv => ReadsLastWrite
  BY Zenon DEF IInv
<1> QED BY <1>1, DriverInvariant, PTL

\* disk_read and disk_write never run into the panic of a transfer without DRQ,
\* and only what identified itself as a disk is asked to read or write.
THEOREM TransfersSucceed == Spec => []NeverFails
<1>1. IInv => NeverFails
  BY DEF IInv, Known, NeverFails
<1> QED BY <1>1, DriverInvariant, PTL
-----------------------------------------------------------------------------
(* Interrupts that were asked for, and their completions.                  *)

\* What Quiet says when no thread but t is at work.
QuietAt(t) ==
  spurious = 0 =>
    /\ drive.phase = "idle" => drive = IdleDrive
    /\ irq \/ completion_wait # 0 => pc[t] = "wait"
    /\ pc[t] \in {"wait", "busy", "transfer"} => expecting_interrupt
    /\ pc[t] = "wait" /\ Busy => ~irq /\ completion_wait = 0
    /\ pc[t] = "wait" /\ ~Busy => (irq <=> completion_wait = 0)
    /\ pc[t] = "busy" /\ req[t].cmd # "write" => ~Busy
    /\ pc[t] \in {"select", "release"} \/ pc[t] \notin Active => drive.phase = "idle"

\* The lock of the channel, and the detection before the others start, leave at
\* most one thread at work.
LEMMA OneAtWork ==
  ASSUME IInv, NEW t \in Threads, NEW u \in Threads, pc[t] \in Active, pc[u] \in Active
  PROVE  t = u
<1>1. \A x \in Threads : pc[x] \in Active => \/ x = main /\ lock = NULL
                                             \/ lock = x
  BY DEF IInv, Types, Alone
<1> QED BY <1>1

\* The driver hands t from one place to the next and no other thread is at work.
LEMMA MovesAlone ==
  ASSUME IInv, NEW t \in Threads, pc[t] \in Active, NEW l, pc' = [pc EXCEPT ![t] = l]
  PROVE  pc'[t] = l /\ \A u \in Threads \ {t} : pc'[u] \notin Active
<1>1. pc'[t] = l /\ \A u \in Threads \ {t} : pc'[u] = pc[u]
  BY DEF IInv, Types
<1>2. \A u \in Threads \ {t} : pc[u] \notin Active
  BY OneAtWork
<1> QED BY <1>1, <1>2

\* While t is at work, Quiet is about t.
LEMMA QuietBefore ==
  ASSUME IInv, Quiet, NEW t \in Threads, pc[t] \in Active
  PROVE  QuietAt(t)
<1>1. \A u \in Threads : pc[u] = "wait" => u = t
  BY OneAtWork
<1> QED BY <1>1 DEF Quiet, QuietAt

\* When no other thread is at work, what holds for t is all of Quiet.
LEMMA QuietAfter ==
  ASSUME NEW t \in Threads, \A u \in Threads \ {t} : pc'[u] \notin Active, QuietAt(t)'
  PROVE  Quiet'
BY DEF Quiet, QuietAt

\* When no thread is at work nothing is pending and the drive is idle.
LEMMA QuietAtRest ==
  ASSUME Quiet, \A t \in Threads : pc[t] \notin Active
  PROVE  spurious = 0 => /\ drive = IdleDrive /\ drive.phase = "idle"
                         /\ ~irq /\ completion_wait = 0
BY Zenon DEF Quiet

\* A new request waits for the lock: nothing is pending for it.
LEMMA RequestQuiet ==
  ASSUME NEW t \in Threads, NEW cmd \in {"read", "write"}, NEW d \in Devs, NEW s \in Sectors,
         IInv, Counts, Quiet, Request(t, cmd, d, s)
  PROVE  Counts' /\ Quiet'
<1>1. Counts'
  BY Zenon DEF Counts, Request
<1>2. /\ UNCHANGED <<drive, irq, completion_wait, expecting_interrupt, spurious>>
      /\ pc[t] = "idle" /\ pc'[t] = "lock"
      /\ \A u \in Threads \ {t} : pc'[u] = pc[u] /\ req'[u] = req[u]
  BY DEF Request, IInv, Types
<1> QED BY <1>1, <1>2 DEF Quiet, Busy

\* lock_acquire: the channel is handed over with nothing pending.
LEMMA AcquireQuiet ==
  ASSUME NEW t \in Threads, IInv, Counts, Quiet, Acquire(t)
  PROVE  Counts' /\ Quiet'
<1>1. Counts'
  BY Zenon DEF Counts, Acquire
<1>2. \A u \in Threads : pc[u] \notin Active
  BY DEF Acquire, IInv, Types, Alone
<1>3. pc'[t] = "select" /\ \A u \in Threads \ {t} : pc'[u] = pc[u]
  BY DEF Acquire, IInv, Types
<1>4. UNCHANGED <<drive, irq, completion_wait, expecting_interrupt, spurious>>
  BY DEF Acquire
<1>5. QuietAt(t)'
  BY <1>2, <1>3, <1>4, QuietAtRest DEF QuietAt
<1> QED BY <1>1, <1>2, <1>3, <1>5, QuietAfter

\* select_device_wait clears no interrupt that anybody waits for.
LEMMA SelectQuiet ==
  ASSUME NEW t \in Threads, IInv, Counts, Quiet, Select(t)
  PROVE  Counts' /\ Quiet'
<1>1. Counts'
  BY Zenon DEF Counts, Select
<1>2. pc[t] = "select" /\ QuietAt(t)
  BY QuietBefore DEF Select
<1>3. pc' = [pc EXCEPT ![t] = "issue"]
  BY DEF Select
<1>4. pc'[t] = ("issue") /\ \A u \in Threads \ {t} : pc'[u] \notin Active
  BY <1>2, <1>3, MovesAlone, Zenon
<1>5. /\ UNCHANGED <<req, drive, completion_wait, expecting_interrupt, spurious>>
      /\ irq' = FALSE
  BY DEF Select
<1>6. drive.phase = "idle"
  BY DEF IInv, Types, Select, Busy, DataRequest
<1>7. QuietAt(t)'
  BY <1>2, <1>4, <1>5, <1>6, Zenon DEF QuietAt, Busy
<1> QED BY <1>1, <1>4, <1>7, QuietAfter

\* wait_until_idle finds the drive idle at once.
LEMMA PollQuiet ==
  ASSUME NEW t \in Threads, IInv, Counts, Quiet, Poll(t)
  PROVE  Counts' /\ Quiet'
<1>1. Counts'
  BY Zenon DEF Counts, Poll
<1>2. pc[t] = "select" /\ QuietAt(t)
  BY QuietBefore DEF Poll
<1>3. spurious # 0
  BY <1>2 DEF Poll, QuietAt, Busy, DataRequest
<1>4. spurious' = spurious
  BY DEF Poll
<1> QED BY <1>1, <1>3, <1>4 DEF Quiet

\* issue_pio_command expects the interrupt before the drive can raise it.
LEMMA IssueQuiet ==
  ASSUME NEW t \in Threads, IInv, Counts, Quiet, issue_pio_command(t)
  PROVE  Counts' /\ Quiet'
<1>1. Counts'
  BY Zenon DEF Counts, issue_pio_command
<1>2. pc[t] = "issue" /\ QuietAt(t)
  BY QuietBefore DEF issue_pio_command
<1>3. pc' = [pc EXCEPT ![t] = IF req[t].cmd = "write" THEN "busy" ELSE "wait"]
  BY DEF issue_pio_command
<1>4. pc'[t] = (IF req[t].cmd = "write" THEN "busy" ELSE "wait") /\ \A u \in Threads \ {t} : pc'[u] \notin Active
  BY <1>2, <1>3, MovesAlone, Zenon
<1>5. /\ UNCHANGED <<req, irq, completion_wait, spurious>> /\ expecting_interrupt' = TRUE
      /\ drive'.phase = "busy"
  BY DEF issue_pio_command
<1>6. QuietAt(t)'
  BY <1>2, <1>4, <1>5, Zenon DEF QuietAt, Busy
<1> QED BY <1>1, <1>4, <1>6, QuietAfter

\* sema_down takes the one completion.
LEMMA WaitQuiet ==
  ASSUME NEW t \in Threads, IInv, Counts, Quiet, Wait(t)
  PROVE  Counts' /\ Quiet'
<1>1. Counts'
  <2>1. irq' = irq /\ spurious' = spurious /\ completion_wait > 0
        /\ completion_wait' = completion_wait - 1
    BY DEF Wait
  <2>2. irq' \in BOOLEAN
    BY <2>1, Zenon DEF Counts
  <2>3. completion_wait' \in Nat /\ spurious' \in Nat
        /\ (completion_wait' \in {0, 1} \/ spurious' # 0)
    BY <2>1 DEF Counts
  <2> QED BY <2>2, <2>3, Zenon DEF Counts
<1>2. pc[t] = "wait" /\ QuietAt(t)
  BY QuietBefore DEF Wait
<1>3. pc' = [pc EXCEPT ![t] = IF req[t].cmd = "write" THEN "release" ELSE "busy"]
  BY DEF Wait
<1>4. pc'[t] = (IF req[t].cmd = "write" THEN "release" ELSE "busy") /\ \A u \in Threads \ {t} : pc'[u] \notin Active
  BY <1>2, <1>3, MovesAlone, Zenon
<1>5. /\ UNCHANGED <<req, drive, irq, expecting_interrupt, spurious>>
      /\ completion_wait > 0 /\ completion_wait' = completion_wait - 1
  BY DEF Wait
<1>6. /\ req[t].cmd = "write" => drive.phase \in {"idle", "storing"}
      /\ spurious = 0 => completion_wait \in {0, 1}
  BY <1>2 DEF IInv, DriveFits, Counts
<1>7. QuietAt(t)'
  BY <1>2, <1>4, <1>5, <1>6 DEF QuietAt, Busy
<1> QED BY <1>1, <1>4, <1>7, QuietAfter

\* wait_while_busy after the interrupt: the drive is done.
LEMMA WaitWhileBusyQuiet ==
  ASSUME NEW t \in Threads, IInv, Counts, Quiet, wait_while_busy(t)
  PROVE  Counts' /\ Quiet'
<1>1. Counts'
  BY Zenon DEF Counts, wait_while_busy
<1>2. pc[t] = "busy" /\ QuietAt(t)
  BY QuietBefore DEF wait_while_busy
<1>3. /\ ~Busy /\ UNCHANGED <<req, drive, irq, completion_wait, expecting_interrupt, spurious>>
      /\ \/ DataRequest /\ pc' = [pc EXCEPT ![t] = "transfer"]
         \/ ~DataRequest /\ req[t].cmd = "identify" /\ pc' = [pc EXCEPT ![t] = "probe"]
         \/ ~DataRequest /\ req[t].cmd # "identify" /\ pc' = [pc EXCEPT ![t] = "failed"]
  BY DEF wait_while_busy
<1>4. drive.phase \in {"idle", "ready"}
  BY <1>3 DEF Busy, IInv, Types
<1>5. pc'[t] \in {"transfer", "probe", "failed"} /\ (pc'[t] # "transfer" => ~DataRequest)
      /\ \A u \in Threads \ {t} : pc'[u] \notin Active
  BY <1>2, <1>3, MovesAlone, Zenon
<1>6. QuietAt(t)'
  BY <1>2, <1>3, <1>4, <1>5 DEF QuietAt, DataRequest
<1> QED BY <1>1, <1>5, <1>6, QuietAfter

\* input_sector leaves the drive idle.
LEMMA InputQuiet ==
  ASSUME NEW t \in Threads, IInv, Counts, Quiet, input_sector(t)
  PROVE  Counts' /\ Quiet'
<1>1. Counts'
  BY Zenon DEF Counts, input_sector
<1>2. pc[t] = "transfer" /\ QuietAt(t)
  BY QuietBefore DEF input_sector
<1>3. pc' = [pc EXCEPT ![t] = IF req[t].cmd = "read" THEN "release" ELSE "probe"]
  BY DEF input_sector
<1>4. pc'[t] = (IF req[t].cmd = "read" THEN "release" ELSE "probe") /\ \A u \in Threads \ {t} : pc'[u] \notin Active
  BY <1>2, <1>3, MovesAlone, Zenon
<1>5. /\ UNCHANGED <<req, irq, completion_wait, expecting_interrupt, spurious>>
      /\ drive' = IdleDrive /\ drive'.phase = "idle"
  BY DEF input_sector, IdleDrive
<1>6. QuietAt(t)'
  BY <1>2, <1>4, <1>5 DEF QuietAt, Busy
<1> QED BY <1>1, <1>4, <1>6, QuietAfter

\* output_sector: the drive stores, and its interrupt is still to come.
LEMMA OutputQuiet ==
  ASSUME NEW t \in Threads, IInv, Counts, Quiet, output_sector(t)
  PROVE  Counts' /\ Quiet'
<1>1. Counts'
  BY Zenon DEF Counts, output_sector
<1>2. pc[t] = "transfer" /\ QuietAt(t)
  BY QuietBefore DEF output_sector
<1>3. pc' = [pc EXCEPT ![t] = "wait"]
  BY DEF output_sector
<1>4. pc'[t] = ("wait") /\ \A u \in Threads \ {t} : pc'[u] \notin Active
  BY <1>2, <1>3, MovesAlone, Zenon
<1>5. UNCHANGED <<req, irq, completion_wait, expecting_interrupt, spurious>>
  BY DEF output_sector
<1>6. drive'.phase = "storing"
  BY DEF output_sector, IInv, Types
<1>7. QuietAt(t)'
  BY <1>2, <1>4, <1>5, <1>6 DEF QuietAt, Busy
<1> QED BY <1>1, <1>4, <1>7, QuietAfter

\* lock_release comes after the completion was taken.
LEMMA ReleaseQuiet ==
  ASSUME NEW t \in Threads, IInv, Counts, Quiet, Release(t)
  PROVE  Counts' /\ Quiet'
<1>1. Counts'
  BY Zenon DEF Counts, Release
<1>2. pc[t] = "release" /\ QuietAt(t)
  BY QuietBefore DEF Release
<1>3. pc' = [pc EXCEPT ![t] = "idle"]
  BY DEF Release
<1>4. pc'[t] = ("idle") /\ \A u \in Threads \ {t} : pc'[u] \notin Active
  BY <1>2, <1>3, MovesAlone, Zenon
<1>5. UNCHANGED <<drive, irq, completion_wait, expecting_interrupt, spurious>>
  BY DEF Release
<1>6. QuietAt(t)'
  BY <1>2, <1>4, <1>5 DEF QuietAt
<1> QED BY <1>1, <1>4, <1>6, QuietAfter

\* The detection polls: no interrupt.
LEMMA DetectQuiet ==
  ASSUME IInv, Counts, Quiet, Detect
  PROVE  Counts' /\ Quiet'
<1>1. Counts'
  BY Zenon DEF Counts, Detect
<1>2. \A u \in Threads : pc[u] \notin Active
  BY DEF Detect, IInv, Types, Alone
<1>3. pc'[main] = "probe" /\ \A u \in Threads \ {main} : pc'[u] = pc[u]
  BY DEF Detect, IInv, Types
<1>4. UNCHANGED <<drive, irq, completion_wait, expecting_interrupt, spurious>>
  BY DEF Detect
<1>5. QuietAt(main)'
  BY <1>2, <1>3, <1>4, QuietAtRest DEF QuietAt
<1> QED BY <1>1, <1>2, <1>3, <1>5, QuietAfter

\* One identification ends before the next.
LEMMA IdentifyQuiet ==
  ASSUME IInv, Counts, Quiet, Identify
  PROVE  Counts' /\ Quiet'
<1>1. Counts'
  BY Zenon DEF Counts, Identify
<1>2. \A u \in Threads : pc[u] \notin Active
  BY Zenon DEF Identify, IInv, Types, Alone
<1>3. UNCHANGED <<drive, irq, completion_wait, expecting_interrupt, spurious>>
  BY DEF Identify
<1>4. pc' = [t \in Threads |-> "idle"] \/ pc' = [pc EXCEPT ![main] = "select"]
  BY DEF Identify
<1>5. /\ pc'[main] \in {"idle", "select"}
      /\ \A u \in Threads \ {main} : pc'[u] \in {"idle", pc[u]}
  <2>1. CASE pc' = [t \in Threads |-> "idle"]
    BY <2>1
  <2>2. CASE pc' = [pc EXCEPT ![main] = "select"]
    BY <2>2 DEF IInv, Types
  <2> QED BY <1>4, <2>1, <2>2
<1>6. QuietAt(main)'
  BY <1>2, <1>3, <1>5, QuietAtRest DEF QuietAt
<1> QED BY <1>1, <1>2, <1>5, <1>6, QuietAfter

\* The drive raises one interrupt for a command, for the thread that waits.
LEMMA DriveQuiet ==
  ASSUME IInv, Counts, Quiet, Drive
  PROVE  Counts' /\ Quiet'
<1>1. Counts'
  <2>1. irq' \in {TRUE, irq} /\ UNCHANGED <<completion_wait, spurious>>
    BY Zenon DEF Drive
  <2> QED BY <2>1, Zenon DEF Counts
<1>2. Busy /\ UNCHANGED <<pc, req, expecting_interrupt, completion_wait, spurious>>
  BY Zenon DEF Drive, driver, history
<1>3. CASE spurious # 0
  BY <1>1, <1>2, <1>3 DEF Quiet
<1>4. CASE spurious = 0
  <2>1. PICK t \in Threads : pc[t] \in Active
    <3>1. drive.phase # "idle"
      BY <1>2 DEF Busy
    <3> QED BY <1>4, <3>1 DEF Quiet
  <2>2. QuietAt(t)
    BY <2>1, QuietBefore
  <2>3. \A u \in Threads \ {t} : pc'[u] \notin Active
    BY <1>2, <2>1, OneAtWork
  <2>4. CASE drive.cmd = "write" /\ drive.phase = "busy"
    <3>1. drive' = [drive EXCEPT !.phase = "ready"] /\ irq' = irq
      BY <2>4, Zenon DEF Drive
    <3>2. drive'.phase = "ready"
      BY <3>1, Zenon DEF IInv, Types
    <3>3. pc[t] # "wait"
      BY <2>4 DEF IInv, DriveFits
    <3>4. QuietAt(t)'
      BY <1>2, <1>4, <2>1, <2>2, <3>1, <3>2, <3>3 DEF QuietAt, Busy
    <3> QED BY <1>1, <2>3, <3>4, QuietAfter
  <2>5. CASE ~(drive.cmd = "write" /\ drive.phase = "busy")
    <3>1. irq' = TRUE
      BY <2>5, Zenon DEF Drive
    <3>2. /\ drive'.phase \in {"ready", "idle"}
          /\ drive'.phase = "idle" => drive' = IdleDrive
      <4>1. \/ drive' = IdleDrive
            \/ \E x : drive' = [drive EXCEPT !.phase = "ready", !.data = x]
        BY <2>5, Zenon DEF Drive
      <4>2. ASSUME NEW x, drive' = [drive EXCEPT !.phase = "ready", !.data = x]
            PROVE  drive'.phase = "ready"
        BY <4>2 DEF IInv, Types
      <4>3. IdleDrive.phase = "idle"
        BY DEF IdleDrive
      <4>4. CASE drive' = IdleDrive
        BY <4>3, <4>4
      <4>5. CASE drive'.phase = "ready"
        BY <4>5
      <4> QED BY <4>1, <4>2, <4>4, <4>5, Zenon
    <3>3. pc[t] = "wait"
      <4>1. drive.phase = "storing" \/ (drive.phase = "busy" /\ drive.cmd # "write")
        BY <1>2, <2>5 DEF Busy
      <4>2. pc[t] \in {"select", "issue", "release", "transfer", "busy", "wait"}
        BY <2>1
      <4>3. pc[t] \notin {"select", "release"}
        BY <1>2, <1>4, <2>2 DEF QuietAt, Busy
      <4>4. pc[t] \notin {"issue", "transfer"}
        BY <4>1, Zenon DEF IInv, DriveFits
      <4>5. pc[t] # "busy"
        BY <1>2, <1>4, <2>2, <4>1, Zenon DEF IInv, DriveFits, QuietAt
      <4> QED BY <4>2, <4>3, <4>4, <4>5
    <3>4. QuietAt(t)'
      BY <1>2, <1>4, <2>2, <3>1, <3>2, <3>3 DEF QuietAt, Busy
    <3> QED BY <1>1, <2>3, <3>4, QuietAfter
  <2> QED BY <2>4, <2>5
<1> QED BY <1>3, <1>4

\* After an interrupt that nobody asked for nothing is claimed.
LEMMA SpuriousQuiet ==
  ASSUME IInv, Counts, Quiet, Spurious
  PROVE  Counts' /\ Quiet'
<1>1. irq' = TRUE /\ spurious' = spurious + 1 /\ UNCHANGED completion_wait
  BY DEF Spurious, driver
<1>2. irq' \in BOOLEAN
  BY <1>1, Zenon
<1>3. spurious' \in Nat /\ spurious' # 0 /\ completion_wait' \in Nat
  BY <1>1 DEF Counts
<1> QED BY <1>2, <1>3, Zenon DEF Counts, Quiet

\* interrupt_handler turns the interrupt into a completion.
LEMMA HandlerQuiet ==
  ASSUME IInv, Counts, Quiet, interrupt_handler
  PROVE  Counts' /\ Quiet'
<1>1. /\ irq /\ irq' = FALSE
      /\ UNCHANGED <<pc, req, drive, expecting_interrupt, spurious>>
      /\ completion_wait' = IF expecting_interrupt THEN completion_wait + 1 ELSE completion_wait
  BY Zenon DEF interrupt_handler, history
<1>2. irq' \in BOOLEAN
  BY <1>1, Zenon
<1>3. ASSUME spurious = 0
      PROVE  /\ completion_wait = 0 /\ completion_wait' = 1
             /\ \E t \in Threads : pc[t] = "wait"
             /\ \A t \in Threads : pc[t] = "wait" => ~Busy
  BY <1>1, <1>3 DEF Quiet
<1>4. /\ completion_wait' \in Nat /\ spurious' \in Nat
      /\ completion_wait' \in {0, 1} \/ spurious' # 0
  BY <1>1, <1>3 DEF Counts
<1>5. Busy' = Busy
  BY <1>1 DEF Busy
<1> QED BY <1>1, <1>2, <1>3, <1>4, <1>5 DEF Counts, Quiet

\* The interrupts and completions are accounted for: Quiet is inductive with IInv.
LEMMA QuietHolds == Spec => [](IInv /\ Counts /\ Quiet)
<1>1. Init => IInv /\ Counts /\ Quiet
  <2>1. Init => Counts
    <3>1. Init => irq \in BOOLEAN
      BY Zenon DEF Init
    <3>2. Init => completion_wait = 0 /\ spurious = 0
      BY Zenon DEF Init
    <3> QED BY <3>1, <3>2 DEF Counts
  <2>2. Init => Quiet
    BY DEF Init, Quiet, IdleDrive, Busy
  <2> QED BY <2>1, <2>2, InitHolds
<1>2. IInv /\ Counts /\ Quiet /\ [Next]_vars => (Counts /\ Quiet)'
  <2> SUFFICES ASSUME IInv, Counts, Quiet, [Next]_vars
               PROVE  (Counts /\ Quiet)'
    OBVIOUS
  <2>1. ASSUME NEW t \in Threads, Step(t)
        PROVE  (Counts /\ Quiet)'
    BY <2>1, AcquireQuiet, SelectQuiet, PollQuiet, IssueQuiet, WaitQuiet, WaitWhileBusyQuiet,
       InputQuiet, OutputQuiet, ReleaseQuiet DEF Step
  <2>2. CASE UNCHANGED vars
    BY <2>2 DEF Counts, Quiet, Busy, vars
  <2> QED
    BY <2>1, <2>2, DetectQuiet, IdentifyQuiet, RequestQuiet, DriveQuiet, SpuriousQuiet,
       HandlerQuiet DEF Next
<1> QED BY <1>1, <1>2, DriverInvariant, PTL DEF Spec

\* disk_write returns after the drive stored the data, and lock_release leaves
\* no interrupt, no completion and no command behind for the next thread, as long
\* as every interrupt was asked for.
THEOREM HandoverIsClean == Spec => []CleanHandover
<1>1. IInv /\ Counts /\ Quiet => CleanHandover
  <2> SUFFICES ASSUME IInv, Counts, Quiet, spurious = 0
               PROVE  /\ lock = NULL /\ (\A t \in Threads : pc[t] \in {"idle", "lock"})
                           => completion_wait = 0 /\ ~irq /\ drive = IdleDrive /\ media = logical
                      /\ \A t \in Threads : pc[t] = "release" /\ req[t].cmd = "write"
                           => media[req[t].dev][req[t].sec] = logical[req[t].dev][req[t].sec]
    BY DEF CleanHandover
  <2>1. drive.phase = "idle" => \A d \in Devs, s \in Sectors : media[d][s] = logical[d][s]
    BY DEF IInv, Stored
  <2>2. drive.phase = "idle" => media = logical
    BY <2>1 DEF IInv, Types
  <2>3. ASSUME NEW t \in Threads, pc[t] = "release"
        PROVE  media[req[t].dev][req[t].sec] = logical[req[t].dev][req[t].sec]
    BY <2>2, <2>3 DEF Quiet
  <2>4. ASSUME \A t \in Threads : pc[t] \in {"idle", "lock"}
        PROVE  completion_wait = 0 /\ ~irq /\ drive.phase = "idle" /\ drive = IdleDrive
    BY <2>4 DEF Quiet
  <2> QED BY <2>2, <2>3, <2>4
<1> QED BY <1>1, QuietHolds, PTL
=============================================================================
