-------------------------- MODULE UefiLoaderProofs --------------------------
(***************************************************************************)
(* Proofs about UefiLoader, for every number of processors and of handles, *)
(* whichever processor runs the loader, whichever are disabled, and for    *)
(* every file that is loaded.                                              *)
(*                                                                         *)
(* What a boot loader relies on is decided by a loop over processors that  *)
(* the firmware starts.  LoaderInv therefore has a history of the loop:    *)
(* which processors have run the entry point and with which result, as a   *)
(* function of where the loader is and of the variable i of the loop       *)
(* (CalledInv), where the call that is in progress stands (CallInv), and   *)
(* who holds the event and the memory (HeldInv).                           *)
(***************************************************************************)
EXTENDS UefiLoader, ElfFileProofs, TLAPS

\* The processor the loop means by c.
Processor(c) == IF c = 0 THEN bsp ELSE c

\* The loader is in the loop over the processors, or before it.
Starting == {"main", "elf", "loop"}
Calling == {"direct", "lost", "startup", "blocked", "wait", "close", "returned"}

UefiTypeOK ==
    /\ at \in Starting \cup Calling \cup Booting \cup {"done"}
    /\ bsp \in Cpus /\ cpu \in 0 .. NumCpus
    /\ result \in {Failure, 0, 1}
    /\ ap \in {"idle", "entry", "signal", "lost"}
    /\ returns \in [Cpus -> {NotReturned, 0, 1}] /\ calls \in [Cpus -> Nat]
    /\ at \in Starting \cup Calling => load = "none"
    /\ at \in Booting => load = "success"

\* Where elf.load is, and that it has an allocation.
ImageInv ==
    /\ at \notin {"main", "elf", "done"} => pc = "loaded"
    /\ pc \notin {"allocate", "failed"} => base # 0

\* The entry point ran once on processor p and returned 0.
Succeeded(p) == calls[p] = 1 /\ returns[p] = 0

\* The entry point did not run on a processor other than those of the CPUs below n.
OnlyBelow(n) ==
    \A p \in Cpus : (\A c \in 0 .. n - 1 : p # Processor(c)) =>
        calls[p] = 0 /\ returns[p] = NotReturned

\* The CPUs below cpu have succeeded, and are different processors; those after
\* it were not started.
CalledInv ==
    /\ at \in Starting \cup Calling => \A c \in 0 .. cpu - 1 :
          /\ Succeeded(Processor(c))
          /\ c # 0 => c # bsp
    /\ at \in Starting \cup {"startup"} => OnlyBelow(cpu)
    /\ at \in Calling => OnlyBelow(cpu + 1) /\ cpu < NumCpus
    /\ at \in {"main", "elf"} => cpu = 0
    /\ at \in Booting => \A p \in Cpus : Succeeded(p)

\* The call that is in progress has run the entry point, or was refused.
Ran ==
    /\ cpu # 0 => cpu # bsp
    /\ calls[Processor(cpu)] = 1 /\ returns[Processor(cpu)] = result /\ result # Failure
Refused ==
    cpu # 0 /\ result = Failure /\ OnlyBelow(cpu)

CallInv ==
    /\ at \in {"direct", "lost"} => cpu = 0 /\ calls[bsp] = 1 /\ returns[bsp] = NotReturned
    /\ at = "startup" => Refused
    /\ at = "blocked" =>
          /\ cpu # 0 /\ cpu # bsp /\ calls[cpu] = 1
          /\ ap \in {"entry", "lost"} => returns[cpu] = NotReturned
          /\ ap \in {"idle", "signal"} => Ran
    /\ at = "wait" => Ran
    /\ at \in {"close", "returned"} => Ran \/ Refused
    /\ ap # "idle" => at = "blocked"

\* The event exists while the call is in progress; each piece of memory is freed
\* before the loader goes on.
HeldInv ==
    /\ at \in Starting \cup Booting \cup {"direct", "lost", "returned", "done"} =>
          join_event = "none"
    /\ at \in Starting \cup Calling \cup {"locate_handles", "handles", "image", "started", "done"} =>
          pool \subseteq {"handles"}
    /\ at = "append" => pool \subseteq {"handles", "file_path"}
    /\ at = "load_image" => pool \subseteq {"handles", "full_path"}

LoaderInv == UefiTypeOK /\ ImageInv /\ CalledInv /\ CallInv /\ HeldInv

-----------------------------------------------------------------------------
(***************************************************************************)
(* LoaderInv is an invariant: one lemma per action, one step per conjunct. *)
(***************************************************************************)

\* A call is for one of the processors.
LEMMA LoopBound ==
  ASSUME LoaderInv, at \in Calling
  PROVE  cpu \in Cpus
BY NumCpusAssumption DEF LoaderInv, UefiTypeOK, CalledInv, Cpus

\* The CPU the loop is at is not the processor of an earlier one, unless it is
\* the loader's own processor.
LEMMA ProcessorsDiffer ==
  ASSUME LoaderInv, cpu \in Cpus, cpu # bsp \/ cpu = 0, NEW c \in 0 .. cpu - 1
  PROVE  /\ cpu # 0 => Processor(c) # Processor(cpu)
         /\ Processor(c) \in Cpus
BY NumCpusAssumption DEF LoaderInv, UefiTypeOK, Processor, Cpus

\* A step that changes what the entry point did only on the processor of the CPU
\* the loop is at keeps what is known of the others.
LEMMA OthersAreKept ==
  ASSUME LoaderInv, cpu \in Cpus, cpu # bsp \/ cpu = 0,
         at \in Starting \cup Calling, at' \in Calling \ {"startup"},
         UNCHANGED <<bsp, cpu>>,
         \A p \in Cpus : p # Processor(cpu) =>
             calls'[p] = calls[p] /\ returns'[p] = returns[p]
  PROVE  CalledInv'
<1> USE NumCpusAssumption
<1>1. cpu \in Nat /\ cpu < NumCpus
  BY DEF Cpus
<1>2. ASSUME NEW c \in 0 .. cpu' - 1
      PROVE  Succeeded(Processor(c))' /\ (c # 0 => c # bsp')
  <2>1. c \in 0 .. cpu - 1 /\ cpu # 0
    BY <1>1, <1>2
  <2>2. Succeeded(Processor(c)) /\ (c # 0 => c # bsp)
    BY <2>1 DEF LoaderInv, CalledInv
  <2>3. Processor(c) \in Cpus /\ Processor(c) # Processor(cpu)
    BY <2>1, ProcessorsDiffer
  <2>4. Processor(c)' = Processor(c)
    BY DEF Processor
  <2> QED
    BY <2>2, <2>3, <2>4 DEF Succeeded
<1>3. OnlyBelow(cpu + 1)'
  <2> SUFFICES ASSUME NEW p \in Cpus, \A c \in 0 .. (cpu + 1)' - 1 : p # Processor(c)'
               PROVE  calls'[p] = 0 /\ returns'[p] = NotReturned
    BY DEF OnlyBelow
  <2>0. \A c \in 0 .. cpu : p # Processor(c)
    BY <1>1 DEF Processor
  <2>1. p # Processor(cpu)
    BY <1>1, <2>0
  <2>2. OnlyBelow(cpu) \/ OnlyBelow(cpu + 1)
    BY DEF LoaderInv, CalledInv, Starting, Calling
  <2>3. calls[p] = 0 /\ returns[p] = NotReturned
    BY <1>1, <2>0, <2>2 DEF OnlyBelow
  <2> QED
    BY <2>1, <2>3
<1> QED
  BY <1>1, <1>2, <1>3 DEF CalledInv, Starting, Calling, Booting

\* elf.load changes nothing the loader knows of but its own place, and has an
\* allocation once it is past the first step.
LEMMA ElfStepInv ==
  ASSUME LoaderInv, ElfStep
  PROVE  LoaderInv'
<1> USE DEF Starting, Calling, Booting
<1>1. pc' \notin {"allocate", "failed"} => base' # 0
  <2>1. \A b \in Bases : b # 0
    BY BasesAssumption
  <2>2. CASE Allocate
    BY <2>1, <2>2 DEF Allocate
  <2>3. CASE MapSegment \/ ProtectSegment \/ Loaded
    BY <2>3 DEF MapSegment, ProtectSegment, Loaded, LoaderInv, ImageInv
  <2>4. CASE GetRelocations \/ RelocateEnds
    BY <2>4 DEF GetRelocations, RelocateEnds, LoaderInv, ImageInv
  <2>5. CASE Relocate
    BY <2>5 DEF Relocate, LoaderInv, ImageInv
  <2> QED
    BY <2>2, <2>3, <2>4, <2>5 DEF ElfStep
<1>2. UNCHANGED <<bsp, disabled, at, cpuVars, load, bootVars, status>> /\ at = "elf"
  BY DEF ElfStep
<1>3. UefiTypeOK' /\ ImageInv'
  BY <1>1, <1>2 DEF LoaderInv, UefiTypeOK, ImageInv, cpuVars
<1>4. CalledInv'
  BY <1>2 DEF LoaderInv, CalledInv, cpuVars, Succeeded, OnlyBelow, Processor
<1>5. CallInv' /\ HeldInv'
  BY <1>2 DEF LoaderInv, CallInv, HeldInv, cpuVars, bootVars
<1> QED
  BY <1>3, <1>4, <1>5 DEF LoaderInv

\* The MP services are located, or uefi_main returns.
LEMMA LocateMpServicesInv ==
  ASSUME LoaderInv, LocateMpServices
  PROVE  LoaderInv'
<1> USE NumCpusAssumption DEF Starting, Calling, Booting, LocateMpServices, Go, Return,
   elfVars, cpuVars, bootVars
<1>1. UefiTypeOK' /\ ImageInv'
  BY DEF LoaderInv, UefiTypeOK, ImageInv, CalledInv, CallInv, Cpus, Failure, NotReturned
<1>2. CalledInv'
  BY DEF LoaderInv, UefiTypeOK, CalledInv, CallInv, Ran, Refused, Succeeded, OnlyBelow,
     Processor, Cpus, Failure, NotReturned
<1>3. CallInv'
  BY DEF LoaderInv, UefiTypeOK, CalledInv, CallInv, Ran, Refused, Succeeded, OnlyBelow,
     Processor, Cpus, Failure, NotReturned
<1>4. HeldInv'
  BY DEF LoaderInv, UefiTypeOK, CallInv, HeldInv
<1> QED
  BY <1>1, <1>2, <1>3, <1>4 DEF LoaderInv

\* The loop over the processors begins with none of them started.
LEMMA NumberOfCpusInv ==
  ASSUME LoaderInv, NumberOfCpus
  PROVE  LoaderInv'
<1> USE NumCpusAssumption DEF Starting, Calling, Booting, NumberOfCpus, Go, LoadElfFails,
   Return, elfVars, cpuVars, bootVars
<1>1. UefiTypeOK' /\ ImageInv'
  BY DEF LoaderInv, UefiTypeOK, ImageInv, CalledInv, CallInv, Cpus, Failure, NotReturned
<1>2. CalledInv'
  BY DEF LoaderInv, UefiTypeOK, CalledInv, CallInv, Ran, Refused, Succeeded, OnlyBelow,
     Processor, Cpus, Failure, NotReturned
<1>3. CallInv'
  BY DEF LoaderInv, UefiTypeOK, CalledInv, CallInv, Ran, Refused, Succeeded, OnlyBelow,
     Processor, Cpus, Failure, NotReturned
<1>4. HeldInv'
  BY DEF LoaderInv, UefiTypeOK, CallInv, HeldInv
<1> QED
  BY <1>1, <1>2, <1>3, <1>4 DEF LoaderInv

\* A processor that succeeded is one of those below i from now on.
LEMMA CallReturnsInv ==
  ASSUME LoaderInv, CallReturns
  PROVE  LoaderInv'
<1> USE NumCpusAssumption DEF Starting, Calling, Booting, CallReturns, Go, LoadElfFails,
   Return, elfVars, cpuVars, bootVars
<1>1. UefiTypeOK' /\ ImageInv'
  BY SMTT(30) DEF LoaderInv, UefiTypeOK, ImageInv, CalledInv, CallInv, Cpus, Failure,
     NotReturned
<1>2. CalledInv'
  <2>1. CASE result = 0 /\ at' = "loop"
    <3>1. Ran /\ cpu' = cpu + 1 /\ cpu \in Cpus
      BY <2>1, LoopBound DEF LoaderInv, UefiTypeOK, CalledInv, CallInv, Refused, Failure, Cpus
    <3>2. UNCHANGED <<calls, returns, bsp>>
      BY <2>1
    <3>3. ASSUME NEW c \in 0 .. cpu' - 1
          PROVE  Succeeded(Processor(c))' /\ (c # 0 => c # bsp')
      <4>1. CASE c = cpu
        BY <2>1, <3>1, <3>2, <4>1 DEF Ran, Succeeded, Processor
      <4>2. CASE c \in 0 .. cpu - 1
        BY <2>1, <3>2, <4>2 DEF LoaderInv, CalledInv, Succeeded, Processor
      <4> QED
        BY <3>1, <4>1, <4>2 DEF Cpus
    <3>4. OnlyBelow(cpu + 1)
      BY DEF LoaderInv, CalledInv
    <3>5. OnlyBelow(cpu)'
      BY <3>1, <3>2, <3>4 DEF OnlyBelow, Processor
    <3> QED
      BY <2>1, <3>3, <3>5 DEF CalledInv
  <2>2. CASE at' = "done"
    BY <2>2 DEF CalledInv
  <2> QED
    BY <2>1, <2>2
<1>3. CallInv'
  BY DEF LoaderInv, UefiTypeOK, CalledInv, CallInv, Ran, Refused, Succeeded, OnlyBelow,
     Processor, Cpus, Failure, NotReturned
<1>4. HeldInv'
  BY DEF LoaderInv, UefiTypeOK, CallInv, HeldInv
<1> QED
  BY <1>1, <1>2, <1>3, <1>4 DEF LoaderInv

\* The loop ends only when i is the number of processors: then the loader runs on
\* processor 0, and every processor has succeeded.
LEMMA LoadElfSucceedsInv ==
  ASSUME LoaderInv, LoadElfSucceeds
  PROVE  LoaderInv'
<1> USE NumCpusAssumption DEF Starting, Calling, Booting, LoadElfSucceeds, Go, elfVars,
   cpuVars, bootVars
<1>1. UefiTypeOK' /\ ImageInv'
  BY DEF LoaderInv, UefiTypeOK, ImageInv, CalledInv, CallInv, Cpus, Failure, NotReturned
<1>2. CalledInv'
  BY DEF LoaderInv, UefiTypeOK, CalledInv, CallInv, Ran, Refused, Succeeded, OnlyBelow,
     Processor, Cpus, Failure, NotReturned
<1>3. CallInv'
  BY DEF LoaderInv, UefiTypeOK, CalledInv, CallInv, Ran, Refused, Succeeded, OnlyBelow,
     Processor, Cpus, Failure, NotReturned
<1>4. HeldInv'
  BY DEF LoaderInv, UefiTypeOK, CallInv, HeldInv
<1> QED
  BY <1>1, <1>2, <1>3, <1>4 DEF LoaderInv

\* The entry point is called on the loader's own processor as CPU 0, and only then.
LEMMA CallDirectlyInv ==
  ASSUME LoaderInv, CallDirectly
  PROVE  LoaderInv'
<1> USE NumCpusAssumption DEF Starting, Calling, Booting, CallDirectly, Go, elfVars, cpuVars,
   bootVars
<1>1. UefiTypeOK' /\ ImageInv'
  BY DEF LoaderInv, UefiTypeOK, ImageInv, CalledInv, CallInv, Cpus, Failure, NotReturned
<1>2. CalledInv'
  BY DEF LoaderInv, UefiTypeOK, CalledInv, CallInv, Ran, Refused, Succeeded, OnlyBelow,
     Processor, Cpus, Failure, NotReturned
<1>3. CallInv'
  BY DEF LoaderInv, UefiTypeOK, CalledInv, CallInv, Ran, Refused, Succeeded, OnlyBelow,
     Processor, Cpus, Failure, NotReturned
<1>4. HeldInv'
  BY DEF LoaderInv, UefiTypeOK, CallInv, HeldInv
<1> QED
  BY <1>1, <1>2, <1>3, <1>4 DEF LoaderInv

\* The result of the direct call is what the processor returned.
LEMMA DirectReturnsInv ==
  ASSUME LoaderInv, DirectReturns
  PROVE  LoaderInv'
<1> USE NumCpusAssumption DEF Starting, Calling, Booting, DirectReturns, Go, elfVars, cpuVars,
   bootVars
<1>1. UefiTypeOK' /\ ImageInv'
  BY DEF LoaderInv, UefiTypeOK, ImageInv, CalledInv, CallInv, Cpus, Failure, NotReturned
<1>2. CalledInv'
  <2>1. cpu \in Cpus /\ (cpu # bsp \/ cpu = 0)
    BY LoopBound DEF LoaderInv, UefiTypeOK, CallInv, Cpus
  <2>2. \A p \in Cpus : p # Processor(cpu) => calls'[p] = calls[p] /\ returns'[p] = returns[p]
    BY <2>1 DEF LoaderInv, UefiTypeOK, CallInv, Processor
  <2> QED
    BY <2>1, <2>2, OthersAreKept DEF LoaderInv, CallInv
<1>3. CallInv'
  BY DEF LoaderInv, UefiTypeOK, CalledInv, CallInv, Ran, Refused, Succeeded, OnlyBelow,
     Processor, Cpus, Failure, NotReturned
<1>4. HeldInv'
  BY DEF LoaderInv, UefiTypeOK, CallInv, HeldInv
<1> QED
  BY <1>1, <1>2, <1>3, <1>4 DEF LoaderInv

\* A call on an AP begins with a result of failure, and with an event.
LEMMA CreateEventInv ==
  ASSUME LoaderInv, CreateEvent
  PROVE  LoaderInv'
<1> USE NumCpusAssumption DEF Starting, Calling, Booting, CreateEvent, Go, elfVars, cpuVars,
   bootVars
<1>1. UefiTypeOK' /\ ImageInv'
  BY DEF LoaderInv, UefiTypeOK, ImageInv, CalledInv, CallInv, Cpus, Failure, NotReturned
<1>2. CalledInv'
  <2>1. OnlyBelow(cpu) /\ at = "loop" /\ cpu < NumCpus /\ cpu \in Nat
    BY DEF LoaderInv, CalledInv, Cpus
  <2>2. OnlyBelow(cpu)' /\ OnlyBelow(cpu + 1)'
    BY <2>1 DEF OnlyBelow, Processor
  <2>3. \A c \in 0 .. cpu' - 1 : Succeeded(Processor(c))' /\ (c # 0 => c # bsp')
    BY <2>1 DEF LoaderInv, CalledInv, Succeeded, Processor
  <2> QED
    BY <2>1, <2>2, <2>3 DEF CalledInv
<1>3. CallInv'
  BY DEF LoaderInv, UefiTypeOK, CalledInv, CallInv, Ran, Refused, Succeeded, OnlyBelow,
     Processor, Cpus, Failure, NotReturned
<1>4. HeldInv'
  BY DEF LoaderInv, UefiTypeOK, CallInv, HeldInv
<1> QED
  BY <1>1, <1>2, <1>3, <1>4 DEF LoaderInv

\* The AP is neither the loader's processor nor one that was started before.
LEMMA StartupThisApInv ==
  ASSUME LoaderInv, StartupThisAp
  PROVE  LoaderInv'
<1> USE NumCpusAssumption DEF Starting, Calling, Booting, StartupThisAp, Go, elfVars, cpuVars,
   bootVars
<1>1. UefiTypeOK' /\ ImageInv'
  BY DEF LoaderInv, UefiTypeOK, ImageInv, CalledInv, CallInv, Cpus, Failure, NotReturned
<1>0. cpu \in Cpus \ {0} /\ at = "startup" /\ Refused
  BY LoopBound DEF LoaderInv, CallInv, Refused
<1>2. CalledInv'
  <2>1. CASE at' = "blocked"
    <3>1. \A p \in Cpus : p # Processor(cpu) => calls'[p] = calls[p] /\ returns'[p] = returns[p]
      BY <1>0, <2>1 DEF LoaderInv, UefiTypeOK, Processor
    <3> QED
      BY <1>0, <2>1, <3>1, OthersAreKept
  <2>2. CASE at' = "close"
    <3>1. UNCHANGED <<bsp, cpu, calls, returns>>
      BY <2>2
    <3>2. OnlyBelow(cpu + 1)' /\ \A c \in 0 .. cpu' - 1 : Succeeded(Processor(c))' /\ (c # 0 => c # bsp')
      BY <1>0, <3>1 DEF LoaderInv, CalledInv, OnlyBelow, Succeeded, Processor
    <3> QED
      BY <1>0, <2>2, <3>1, <3>2 DEF CalledInv, Cpus
  <2> QED
    BY <2>1, <2>2
<1>3. CallInv'
  <2>1. CASE at' = "blocked"
    <3>1. calls[cpu] = 0 /\ returns[cpu] = NotReturned
      <4>1. \A c \in 0 .. cpu - 1 : cpu # Processor(c)
        BY <1>0, <2>1 DEF Processor, Cpus
      <4> QED
        BY <1>0, <4>1 DEF Refused, OnlyBelow
    <3>2. calls'[cpu] = 1 /\ returns'[cpu] = NotReturned
      BY <1>0, <2>1, <3>1 DEF LoaderInv, UefiTypeOK
    <3> QED
      BY <1>0, <2>1, <3>2 DEF CallInv
  <2>2. CASE at' = "close"
    BY <1>0, <2>2 DEF LoaderInv, CallInv, Refused, OnlyBelow, Processor
  <2> QED
    BY <2>1, <2>2
<1>4. HeldInv'
  BY DEF LoaderInv, UefiTypeOK, CallInv, HeldInv
<1> QED
  BY <1>1, <1>2, <1>3, <1>4 DEF LoaderInv

\* The AP has ended, so its result is in place.
LEMMA StartupReturnsInv ==
  ASSUME LoaderInv, StartupReturns
  PROVE  LoaderInv'
<1> USE NumCpusAssumption DEF Starting, Calling, Booting, StartupReturns, Go, elfVars,
   cpuVars, bootVars
<1>1. UefiTypeOK' /\ ImageInv'
  BY DEF LoaderInv, UefiTypeOK, ImageInv, CalledInv, CallInv, Cpus, Failure, NotReturned
<1>2. CalledInv'
  BY DEF LoaderInv, UefiTypeOK, CalledInv, CallInv, Ran, Refused, Succeeded, OnlyBelow,
     Processor, Cpus, Failure, NotReturned
<1>3. CallInv'
  BY DEF LoaderInv, UefiTypeOK, CalledInv, CallInv, Ran, Refused, Succeeded, OnlyBelow,
     Processor, Cpus, Failure, NotReturned
<1>4. HeldInv'
  BY DEF LoaderInv, UefiTypeOK, CallInv, HeldInv
<1> QED
  BY <1>1, <1>2, <1>3, <1>4 DEF LoaderInv

\* The signal is taken.
LEMMA WaitForEventInv ==
  ASSUME LoaderInv, WaitForEvent
  PROVE  LoaderInv'
<1> USE NumCpusAssumption DEF Starting, Calling, Booting, WaitForEvent, Go, elfVars, cpuVars,
   bootVars
<1>1. UefiTypeOK' /\ ImageInv'
  BY DEF LoaderInv, UefiTypeOK, ImageInv, CalledInv, CallInv, Cpus, Failure, NotReturned
<1>2. CalledInv'
  BY DEF LoaderInv, UefiTypeOK, CalledInv, CallInv, Ran, Refused, Succeeded, OnlyBelow,
     Processor, Cpus, Failure, NotReturned
<1>3. CallInv'
  BY DEF LoaderInv, UefiTypeOK, CalledInv, CallInv, Ran, Refused, Succeeded, OnlyBelow,
     Processor, Cpus, Failure, NotReturned
<1>4. HeldInv'
  BY DEF LoaderInv, UefiTypeOK, CallInv, HeldInv
<1> QED
  BY <1>1, <1>2, <1>3, <1>4 DEF LoaderInv

\* The event is closed on every way out of the call.
LEMMA CloseEventInv ==
  ASSUME LoaderInv, CloseEvent
  PROVE  LoaderInv'
<1> USE NumCpusAssumption DEF Starting, Calling, Booting, CloseEvent, Go, elfVars, cpuVars,
   bootVars
<1>1. UefiTypeOK' /\ ImageInv'
  BY DEF LoaderInv, UefiTypeOK, ImageInv, CalledInv, CallInv, Cpus, Failure, NotReturned
<1>2. CalledInv'
  BY DEF LoaderInv, UefiTypeOK, CalledInv, CallInv, Ran, Refused, Succeeded, OnlyBelow,
     Processor, Cpus, Failure, NotReturned
<1>3. CallInv'
  BY DEF LoaderInv, UefiTypeOK, CalledInv, CallInv, Ran, Refused, Succeeded, OnlyBelow,
     Processor, Cpus, Failure, NotReturned
<1>4. HeldInv'
  BY DEF LoaderInv, UefiTypeOK, CallInv, HeldInv
<1> QED
  BY <1>1, <1>2, <1>3, <1>4 DEF LoaderInv

\* The AP's result is what the entry point returned on it.
LEMMA ApReturnsInv ==
  ASSUME LoaderInv, ApReturns
  PROVE  LoaderInv'
<1> USE NumCpusAssumption DEF Starting, Calling, Booting, ApReturns, Go, elfVars, cpuVars,
   bootVars
<1>1. UefiTypeOK' /\ ImageInv'
  BY DEF LoaderInv, UefiTypeOK, ImageInv, CalledInv, CallInv, Cpus, Failure, NotReturned
<1>2. CalledInv'
  <2>1. cpu \in Cpus /\ (cpu # bsp \/ cpu = 0)
    BY LoopBound DEF LoaderInv, UefiTypeOK, CallInv, Cpus
  <2>2. \A p \in Cpus : p # Processor(cpu) => calls'[p] = calls[p] /\ returns'[p] = returns[p]
    BY <2>1 DEF LoaderInv, UefiTypeOK, CallInv, Processor
  <2> QED
    BY <2>1, <2>2, OthersAreKept DEF LoaderInv, CallInv
<1>3. CallInv'
  BY DEF LoaderInv, UefiTypeOK, CalledInv, CallInv, Ran, Refused, Succeeded, OnlyBelow,
     Processor, Cpus, Failure, NotReturned
<1>4. HeldInv'
  BY DEF LoaderInv, UefiTypeOK, CallInv, HeldInv
<1> QED
  BY <1>1, <1>2, <1>3, <1>4 DEF LoaderInv

\* The AP ends after its result was stored.
LEMMA ApSignalsInv ==
  ASSUME LoaderInv, ApSignals
  PROVE  LoaderInv'
<1> USE NumCpusAssumption DEF Starting, Calling, Booting, ApSignals, Go, elfVars, cpuVars,
   bootVars
<1>1. UefiTypeOK' /\ ImageInv'
  BY DEF LoaderInv, UefiTypeOK, ImageInv, CalledInv, CallInv, Cpus, Failure, NotReturned
<1>2. CalledInv'
  BY DEF LoaderInv, UefiTypeOK, CalledInv, CallInv, Ran, Refused, Succeeded, OnlyBelow,
     Processor, Cpus, Failure, NotReturned
<1>3. CallInv'
  BY DEF LoaderInv, UefiTypeOK, CalledInv, CallInv, Ran, Refused, Succeeded, OnlyBelow,
     Processor, Cpus, Failure, NotReturned
<1>4. HeldInv'
  BY DEF LoaderInv, UefiTypeOK, CallInv, HeldInv
<1> QED
  BY <1>1, <1>2, <1>3, <1>4 DEF LoaderInv

\* The buffer of the handles is allocated, and never freed.
LEMMA LocateHandlesInv ==
  ASSUME LoaderInv, LocateHandles
  PROVE  LoaderInv'
<1> USE DEF Starting, Calling, Booting, LocateHandles, Go, Return, elfVars, cpuVars, bootVars
<1>1. UefiTypeOK' /\ ImageInv'
  BY DEF LoaderInv, UefiTypeOK, ImageInv
<1>2. CalledInv' /\ CallInv'
  BY DEF LoaderInv, CalledInv, CallInv, Succeeded
<1>3. HeldInv'
  BY DEF LoaderInv, HeldInv
<1> QED
  BY <1>1, <1>2, <1>3 DEF LoaderInv

\* uefi_main returns when there is no handle left.
LEMMA NoBootLoaderInv ==
  ASSUME LoaderInv, NoBootLoader
  PROVE  LoaderInv'
<1> USE DEF Starting, Calling, Booting, NoBootLoader, Go, Return, elfVars, cpuVars, bootVars
<1>1. UefiTypeOK' /\ ImageInv'
  BY DEF LoaderInv, UefiTypeOK, ImageInv
<1>2. CalledInv' /\ CallInv'
  BY DEF LoaderInv, CalledInv, CallInv, Succeeded
<1>3. HeldInv'
  BY DEF LoaderInv, HeldInv
<1> QED
  BY <1>1, <1>2, <1>3 DEF LoaderInv

\* The path of the file is allocated.
LEMMA FileDevicePathInv ==
  ASSUME LoaderInv, FileDevicePath
  PROVE  LoaderInv'
<1> USE DEF Starting, Calling, Booting, FileDevicePath, Go, Return, elfVars, cpuVars, bootVars
<1>1. UefiTypeOK' /\ ImageInv'
  BY DEF LoaderInv, UefiTypeOK, ImageInv
<1>2. CalledInv' /\ CallInv'
  BY DEF LoaderInv, CalledInv, CallInv, Succeeded
<1>3. HeldInv'
  BY DEF LoaderInv, HeldInv
<1> QED
  BY <1>1, <1>2, <1>3 DEF LoaderInv

\* The path of the file is freed when the full path has been made, or not.
LEMMA AppendDevicePathInv ==
  ASSUME LoaderInv, AppendDevicePath
  PROVE  LoaderInv'
<1> USE DEF Starting, Calling, Booting, AppendDevicePath, Go, Return, elfVars, cpuVars, bootVars
<1>1. UefiTypeOK' /\ ImageInv'
  BY DEF LoaderInv, UefiTypeOK, ImageInv
<1>2. CalledInv' /\ CallInv'
  BY DEF LoaderInv, CalledInv, CallInv, Succeeded
<1>3. HeldInv'
  BY DEF LoaderInv, HeldInv
<1> QED
  BY <1>1, <1>2, <1>3 DEF LoaderInv

\* The full path is freed.
LEMMA LoadImageInv ==
  ASSUME LoaderInv, LoadImage
  PROVE  LoaderInv'
<1> USE DEF Starting, Calling, Booting, LoadImage, Go, Return, elfVars, cpuVars, bootVars
<1>1. UefiTypeOK' /\ ImageInv'
  BY DEF LoaderInv, UefiTypeOK, ImageInv
<1>2. CalledInv' /\ CallInv'
  BY DEF LoaderInv, CalledInv, CallInv, Succeeded
<1>3. HeldInv'
  BY DEF LoaderInv, HeldInv
<1> QED
  BY <1>1, <1>2, <1>3 DEF LoaderInv

\* The boot loader is started, or the next handle looked at.
LEMMA StartImageInv ==
  ASSUME LoaderInv, StartImage
  PROVE  LoaderInv'
<1> USE DEF Starting, Calling, Booting, StartImage, Go, Return, elfVars, cpuVars, bootVars
<1>1. UefiTypeOK' /\ ImageInv'
  BY DEF LoaderInv, UefiTypeOK, ImageInv
<1>2. CalledInv' /\ CallInv'
  BY DEF LoaderInv, CalledInv, CallInv, Succeeded
<1>3. HeldInv'
  BY DEF LoaderInv, HeldInv
<1> QED
  BY <1>1, <1>2, <1>3 DEF LoaderInv

\* uefi_main returns what the boot loader returned.
LEMMA ImageReturnsInv ==
  ASSUME LoaderInv, ImageReturns
  PROVE  LoaderInv'
<1> USE DEF Starting, Calling, Booting, ImageReturns, Go, Return, elfVars, cpuVars, bootVars
<1>1. UefiTypeOK' /\ ImageInv'
  BY DEF LoaderInv, UefiTypeOK, ImageInv
<1>2. CalledInv' /\ CallInv'
  BY DEF LoaderInv, CalledInv, CallInv, Succeeded
<1>3. HeldInv'
  BY DEF LoaderInv, HeldInv
<1> QED
  BY <1>1, <1>2, <1>3 DEF LoaderInv

\* LoaderInv holds initially: nothing was called, and nothing is held.
LEMMA LoaderInvInit == UefiInit => LoaderInv
<1> SUFFICES ASSUME UefiInit PROVE LoaderInv
  OBVIOUS
<1> USE NumCpusAssumption DEF UefiInit, Starting, Calling, Booting
<1>1. UefiTypeOK
  BY DEF UefiTypeOK, Cpus, Failure, NotReturned
<1>2. ImageInv /\ HeldInv
  BY DEF Init, ImageInv, HeldInv
<1>3. CalledInv /\ CallInv
  BY DEF CalledInv, CallInv, OnlyBelow, Cpus
<1> QED
  BY <1>1, <1>2, <1>3 DEF LoaderInv

\* Every step keeps LoaderInv.
LEMMA LoaderInvNext == LoaderInv /\ [UefiNext]_uefiVars => LoaderInv'
<1> SUFFICES ASSUME LoaderInv, [UefiNext]_uefiVars PROVE LoaderInv'
  OBVIOUS
<1>1. CASE BspNext
  BY <1>1, ElfStepInv, LocateMpServicesInv, NumberOfCpusInv, CallReturnsInv, LoadElfSucceedsInv,
     CallDirectlyInv, DirectReturnsInv, CreateEventInv, StartupThisApInv, StartupReturnsInv,
     WaitForEventInv, CloseEventInv, LocateHandlesInv, NoBootLoaderInv, FileDevicePathInv,
     AppendDevicePathInv, LoadImageInv, StartImageInv DEF BspNext
<1>2. CASE ApNext
  BY <1>2, ApReturnsInv, ApSignalsInv DEF ApNext
<1>3. CASE ImageReturns
  BY <1>3, ImageReturnsInv
<1>4. CASE UNCHANGED uefiVars
  BY <1>4 DEF LoaderInv, UefiTypeOK, ImageInv, CalledInv, CallInv, HeldInv, Ran, Refused,
     Succeeded, OnlyBelow, Processor, uefiVars, elfVars, cpuVars, bootVars
<1> QED
  BY <1>1, <1>2, <1>3, <1>4 DEF UefiNext

\* LoaderInv is an invariant of the loader.
THEOREM LoaderInvariance == UefiSpec => []LoaderInv
BY LoaderInvInit, LoaderInvNext, PTL DEF UefiSpec

-----------------------------------------------------------------------------
(***************************************************************************)
(* The properties.                                                         *)
(***************************************************************************)

\* Whichever processor runs the loader and whichever are disabled, a boot loader is
\* looked for and started only after the entry point ran exactly once, and
\* returned 0, on every processor of the system.
THEOREM BootLoaderRunsVirtualized == UefiSpec => []BootsOnHypervisor
<1>1. LoaderInv => BootsOnHypervisor
  BY DEF LoaderInv, CalledInv, Succeeded, BootsOnHypervisor
<1> QED
  BY <1>1, LoaderInvariance, PTL

\* The entry point runs only in a complete image, and call_on_cpu does not come
\* back while an AP may still store to its variable.
THEOREM ApIsJoined == UefiSpec => []EntryIsJoined
<1>1. LoaderInv => EntryIsJoined
  BY DEF LoaderInv, ImageInv, CallInv, EntryIsJoined
<1> QED
  BY <1>1, LoaderInvariance, PTL

\* However uefi_main and call_on_cpu return, no event and no memory but the buffer
\* of the handles is left.
THEOREM LoaderLeaksNothing == UefiSpec => []NothingLeaks
<1>1. LoaderInv => NothingLeaks
  BY DEF LoaderInv, HeldInv, NothingLeaks, Starting, Calling, Booting
<1> QED
  BY <1>1, LoaderInvariance, PTL

-----------------------------------------------------------------------------
(***************************************************************************)
(* The loader implements Virtualization: the CPUs become virtual one after *)
(* the other, in the order of the loop.                                    *)
(***************************************************************************)

\* The CPUs that are virtual, as the refinement mapping has them.
Virtualized ==
    {c \in Cpus : returns[IF c = 0 THEN bsp ELSE c] = 0 /\ (c # 0 => c # bsp)}

\* While the loop runs, the CPUs below i are virtual, and of the others at most i,
\* when its processor has returned 0.
LEMMA VirtualizedIsPrefix ==
  ASSUME LoaderInv, at \in Starting \cup Calling
  PROVE  /\ \A c \in 0 .. cpu - 1 : c \in Virtualized
         /\ \A c \in Virtualized : c =< cpu
         /\ cpu \in Virtualized => at \in Calling /\ returns[Processor(cpu)] = 0
<1> USE NumCpusAssumption
<1>1. cpu \in 0 .. NumCpus /\ bsp \in Cpus
  BY DEF LoaderInv, UefiTypeOK
<1>2. \A c \in 0 .. cpu - 1 : c \in Virtualized
  BY <1>1 DEF LoaderInv, CalledInv, Succeeded, Processor, Virtualized, Cpus
<1>3. ASSUME NEW c \in Virtualized, c > cpu
      PROVE  FALSE
  <2>1. c \in Cpus /\ c # 0 /\ c # bsp /\ returns[c] = 0
    BY <1>1, <1>3 DEF Virtualized, Cpus
  <2>2. \A d \in 0 .. cpu : c # Processor(d)
    BY <1>1, <1>3, <2>1 DEF Processor, Cpus
  <2>3. OnlyBelow(cpu) \/ OnlyBelow(cpu + 1)
    BY DEF LoaderInv, CalledInv, Starting, Calling
  <2> QED
    BY <1>1, <2>1, <2>2, <2>3 DEF OnlyBelow, NotReturned
<1>4. ASSUME cpu \in Virtualized
      PROVE  at \in Calling /\ returns[Processor(cpu)] = 0
  <2>1. cpu \in Cpus /\ returns[Processor(cpu)] = 0 /\ (cpu # 0 => cpu # bsp)
    BY <1>4 DEF Virtualized, Processor
  <2>2. CASE at \in Starting
    <3>1. OnlyBelow(cpu)
      BY <2>2 DEF LoaderInv, CalledInv
    <3>2. \A d \in 0 .. cpu - 1 : Processor(cpu) # Processor(d)
      BY <1>1, <2>1 DEF Processor, Cpus
    <3>3. Processor(cpu) \in Cpus
      BY <1>1, <2>1 DEF Processor
    <3> QED
      BY <2>1, <3>1, <3>2, <3>3 DEF OnlyBelow, NotReturned
  <2> QED
    BY <2>1, <2>2
<1> QED
  BY <1>1, <1>2, <1>3, <1>4 DEF Virtualized, Cpus

\* A processor that has not returned yet returns r: the step makes the CPU of the
\* loop virtual if r is 0, and changes nothing otherwise.
LEMMA ReturnVirtualizes ==
  ASSUME LoaderInv, at \in Calling, cpu \in Cpus, cpu # 0 => cpu # bsp,
         NEW r \in {0, 1}, returns[Processor(cpu)] = NotReturned,
         returns' = [returns EXCEPT ![Processor(cpu)] = r], UNCHANGED <<bsp, load>>
  PROVE  [Abstract!Next]_<<Virtualized, load>>
<1> USE NumCpusAssumption
<1>1. cpu \notin Virtualized /\ Processor(cpu) \in Cpus /\ bsp \in Cpus
  BY DEF Virtualized, Processor, NotReturned, LoaderInv, UefiTypeOK
<1>2. returns \in [Cpus -> {NotReturned, 0, 1}]
  BY DEF LoaderInv, UefiTypeOK
<1>3. \A c \in Cpus \ {cpu} : (c # 0 => c # bsp) => Processor(c) \in Cpus /\ Processor(c) # Processor(cpu)
  BY <1>1 DEF Processor
<1>4. \A c \in Cpus : c \in Virtualized' <=> c \in Virtualized \/ (c = cpu /\ r = 0)
  <2> SUFFICES ASSUME NEW c \in Cpus
               PROVE  c \in Virtualized' <=> c \in Virtualized \/ (c = cpu /\ r = 0)
    OBVIOUS
  <2>1. c \in Virtualized <=> returns[Processor(c)] = 0 /\ (c # 0 => c # bsp)
    BY DEF Virtualized, Processor
  <2>2. c \in Virtualized' <=> returns'[Processor(c)] = 0 /\ (c # 0 => c # bsp)
    BY DEF Virtualized, Processor
  <2>3. CASE c = cpu
    BY <1>1, <1>2, <2>1, <2>2, <2>3
  <2>4. CASE c # cpu
    BY <1>1, <1>2, <1>3, <2>1, <2>2, <2>4
  <2> QED
    BY <2>3, <2>4
<1>5. CASE r = 1
  <2>1. Virtualized' = Virtualized
    BY <1>4, <1>5 DEF Virtualized
  <2> QED
    BY <2>1
<1>6. CASE r = 0
  <2>1. \A c \in Cpus : c \in Virtualized <=> c < cpu
    BY <1>1, VirtualizedIsPrefix DEF Cpus
  <2>2. Virtualized = 0 .. cpu - 1
    BY <2>1 DEF Virtualized, Cpus
  <2>3. \A c \in Cpus : c \in Virtualized' <=> c =< cpu
    BY <1>4, <1>6, <2>1 DEF Cpus
  <2>4. Virtualized' = 0 .. cpu
    BY <2>3 DEF Virtualized, Cpus
  <2>5. load = "none"
    BY DEF LoaderInv, UefiTypeOK
  <2>6. Abstract!Virtualize
    BY <2>2, <2>4, <2>5 DEF Abstract!Virtualize, Abstract!Cpus, Cpus, Virtualized
  <2> QED
    BY <2>6 DEF Abstract!Next
<1> QED
  BY <1>5, <1>6

\* Every step of the loader is a step of Virtualization, or changes nothing there.
LEMMA LoaderStepImplements ==
  ASSUME LoaderInv, [UefiNext]_uefiVars
  PROVE  [Abstract!Next]_<<Virtualized, load>>
<1> USE DEF elfVars, cpuVars, bootVars
<1> DEFINE Stutters == UNCHANGED <<returns, bsp, load>>
<1>1. Stutters => [Abstract!Next]_<<Virtualized, load>>
  BY DEF Virtualized
<1>2. CASE \/ LocateMpServices \/ ElfStep \/ CallDirectly \/ CreateEvent \/ StartupThisAp
          \/ StartupReturns \/ WaitForEvent \/ CloseEvent \/ ApSignals \/ UNCHANGED uefiVars
  BY <1>1, <1>2 DEF LocateMpServices, ElfStep, CallDirectly, CreateEvent, StartupThisAp,
     StartupReturns, WaitForEvent, CloseEvent, ApSignals, uefiVars
<1>3. CASE \/ LocateHandles \/ NoBootLoader \/ FileDevicePath \/ AppendDevicePath \/ LoadImage
          \/ StartImage \/ ImageReturns
  BY <1>1, <1>3 DEF LocateHandles, NoBootLoader, FileDevicePath, AppendDevicePath, LoadImage,
     StartImage, ImageReturns
<1>4. ASSUME NEW from \in {"elf", "returned"}, LoadElfFails(from)
      PROVE  [Abstract!Next]_<<Virtualized, load>>
  <2>1. load = "none" /\ load' = "failure" /\ UNCHANGED <<returns, bsp>>
    BY <1>4 DEF LoadElfFails, Return, Go, LoaderInv, UefiTypeOK, Starting, Calling
  <2>2. Abstract!Fail
    BY <2>1 DEF Abstract!Fail
  <2> QED
    BY <2>2 DEF Abstract!Next
<1>5. CASE NumberOfCpus
  BY <1>1, <1>4, <1>5 DEF NumberOfCpus
<1>6. CASE CallReturns
  BY <1>1, <1>4, <1>6 DEF CallReturns
<1>7. CASE LoadElfSucceeds
  <2>1. load = "none" /\ load' = "success" /\ UNCHANGED <<returns, bsp>> /\ at = "loop"
    BY <1>7 DEF LoadElfSucceeds, Go, LoaderInv, UefiTypeOK, Starting, Calling
  <2>2. cpu = NumCpus
    BY <1>7 DEF LoadElfSucceeds
  <2>3. Virtualized = Cpus
    BY <2>1, <2>2, VirtualizedIsPrefix, NumCpusAssumption DEF Virtualized, Cpus, Starting
  <2>4. Abstract!Succeed
    BY <2>1, <2>3 DEF Abstract!Succeed, Abstract!Cpus, Cpus, Virtualized
  <2> QED
    BY <2>4 DEF Abstract!Next
<1>8. CASE DirectReturns
  <2>1. at = "direct" /\ cpu = 0 /\ cpu \in Cpus /\ returns[bsp] = NotReturned /\ UNCHANGED <<bsp, load>>
    BY <1>8, NumCpusAssumption DEF DirectReturns, Go, LoaderInv, CallInv, Cpus
  <2>2. CASE UNCHANGED returns
    BY <1>1, <2>1, <2>2
  <2>3. ASSUME NEW r \in {0, 1}, returns' = [returns EXCEPT ![bsp] = r]
        PROVE  [Abstract!Next]_<<Virtualized, load>>
    BY <2>1, <2>3, ReturnVirtualizes DEF Processor, Calling
  <2> QED
    BY <1>8, <2>2, <2>3 DEF DirectReturns
<1>9. CASE ApReturns
  <2>1. ap = "entry" /\ UNCHANGED <<bsp, load>>
    BY <1>9 DEF ApReturns
  <2>2. at = "blocked" /\ cpu # 0 /\ cpu # bsp /\ returns[cpu] = NotReturned
    BY <2>1 DEF LoaderInv, CallInv
  <2>3. cpu \in Cpus
    BY <2>2, LoopBound DEF Calling
  <2>4. CASE UNCHANGED returns
    BY <1>1, <2>1, <2>4
  <2>5. ASSUME NEW r \in {0, 1}, returns' = [returns EXCEPT ![cpu] = r]
        PROVE  [Abstract!Next]_<<Virtualized, load>>
    BY <2>1, <2>2, <2>3, <2>5, ReturnVirtualizes DEF Processor, Calling
  <2> QED
    BY <1>9, <2>4, <2>5 DEF ApReturns
<1> QED
  BY <1>2, <1>3, <1>5, <1>6, <1>7, <1>8, <1>9 DEF UefiNext, BspNext, ApNext

\* zpp_load_elf under UEFI keeps the promise of Virtualization: one processor after
\* the other enters its virtual machine, none leaves it, and success is reported
\* only when all have.
THEOREM LoaderRefinesVirtualization == UefiSpec => UefiImplementsVirtualization
<1>1. UefiInit => Abstract!Init
  BY DEF UefiInit, Abstract!Init, NotReturned, Cpus
<1>2. LoaderInv /\ [UefiNext]_uefiVars => [Abstract!Next]_<<Virtualized, load>>
  BY LoaderStepImplements
<1>3. UefiSpec => Abstract!Init /\ [][Abstract!Next]_<<Virtualized, load>>
  BY <1>1, <1>2, LoaderInvariance, PTL DEF UefiSpec
<1> QED
  BY <1>3, PTL DEF UefiImplementsVirtualization, Abstract!Spec, Virtualized

-----------------------------------------------------------------------------
(***************************************************************************)
(* What elf.load promises holds in the loader.                             *)
(***************************************************************************)

\* The loader takes the steps of elf.load and leaves its variables alone otherwise.
LEMMA LoaderRunsElf == [UefiNext]_uefiVars => [Next]_vars
<1>1. SUFFICES ASSUME UefiNext PROVE [Next]_vars
  BY DEF uefiVars, elfVars, vars
<1>2. CASE ElfStep
  BY <1>2 DEF ElfStep, Next
<1>3. CASE NumberOfCpus \/ CallReturns
  BY <1>3 DEF NumberOfCpus, CallReturns, LoadElfFails, elfVars, vars
<1>4. CASE LocateMpServices \/ LoadElfSucceeds \/ CallDirectly \/ DirectReturns
             \/ CreateEvent \/ StartupThisAp \/ StartupReturns \/ WaitForEvent \/ CloseEvent
  BY <1>4 DEF LocateMpServices, LoadElfSucceeds, CallDirectly, DirectReturns, CreateEvent,
     StartupThisAp, StartupReturns, WaitForEvent, CloseEvent, elfVars, vars
<1>5. CASE LocateHandles \/ NoBootLoader \/ FileDevicePath \/ AppendDevicePath
             \/ LoadImage \/ StartImage \/ ImageReturns \/ ApNext
  BY <1>5 DEF LocateHandles, NoBootLoader, FileDevicePath, AppendDevicePath, LoadImage,
     StartImage, ImageReturns, ApNext, ApReturns, ApSignals, elfVars, vars
<1>6. QED
  BY <1>1, <1>2, <1>3, <1>4, <1>5 DEF UefiNext, BspNext

\* The invariant of elf.load is one of the loader.
LEMMA LoaderKeepsElfInv == FileIsSound /\ UefiSpec => []ElfInv
<1>1. UefiInit => Init
  BY DEF UefiInit
<1>2. FileIsSound /\ UefiSpec => FileIsSound /\ Init /\ [][Next]_vars
  BY <1>1, LoaderRunsElf, PTL DEF UefiSpec
<1>3. QED
  BY <1>2, ElfInvariance, PTL

\* Whatever the loader and the processors it starts do afterwards, the image of a
\* sound file stays in memory as load made it: at its base, relocated once, with
\* the protection of its segments.
THEOREM LoadedImageStays == FileIsSound /\ UefiSpec => []ImageIsLoaded
<1>1. ElfInv => ImageIsLoaded
  BY InvImage
<1>2. QED
  BY <1>1, LoaderKeepsElfInv, PTL

\* The loader changes nothing outside of what it allocated for a sound file.
THEOREM LoaderStaysInAllocation == FileIsSound /\ UefiSpec => []StaysInAllocation
<1>1. ElfInv => StaysInAllocation
  BY InvAllocation
<1>2. QED
  BY <1>1, LoaderKeepsElfInv, PTL

=============================================================================
