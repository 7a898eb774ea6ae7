----------------------------- MODULE UefiLoader -----------------------------
(***************************************************************************)
(* The UEFI loader: uefi_main loads the hypervisor with zpp_load_elf and   *)
(* then starts the boot loader of an operating system.  zpp_load_elf loads *)
(* the ELF file, as in ElfFile, and calls its entry point on each CPU with *)
(* call_on_cpu: directly on the CPU that runs the loader, and on an        *)
(* application processor through the MP services, joined with an event.    *)
(*                                                                         *)
(* The entry point is Launch's; here it returns 0 or an error, or does not *)
(* return.  Every service of the firmware may fail.                        *)
(***************************************************************************)
EXTENDS ElfFile

CONSTANTS
    NumCpus,     \* what GetNumberOfProcessors reports
    Handles      \* how many handles have the block I/O protocol

ASSUME NumCpusAssumption == NumCpus \in Nat \ {0}
ASSUME HandlesAssumption == Handles \in Nat

Cpus == 0 .. NumCpus - 1
Failure == -1
NotReturned == -2

VARIABLES
    bsp, disabled,   \* the processor that runs the loader, those that are disabled
    at,              \* where uefi_main and the functions it calls are
    cpu,             \* the variable i of zpp_load_elf
    result,          \* of call_on_cpu, on the stack of the loader
    ap,              \* what the started AP does: "idle", "entry" or "signal"
    join_event,      \* "none", "created" or "signaled"
    returns,         \* returns[p]: what the entry point returned on processor p
    calls,           \* calls[p]: how often it was called there
    load,            \* what zpp_load_elf returned: "none", "success", "failure"
    handle,          \* the variable i of uefi_main
    pool,            \* the pool memory that is allocated
    status           \* what uefi_main returned

elfVars == <<file, base, memory, protection, relocations, relocations_size, pc, i>>
cpuVars == <<cpu, result, ap, join_event, returns, calls>>
bootVars == <<handle, pool>>
uefiVars == <<elfVars, bsp, disabled, at, cpuVars, load, bootVars, status>>

UefiInit ==
    /\ Init
    /\ bsp \in Cpus /\ disabled \in SUBSET (Cpus \ {bsp})
    /\ at = "main" /\ cpu = 0 /\ result = Failure
    /\ ap = "idle" /\ join_event = "none"
    /\ returns = [p \in Cpus |-> NotReturned] /\ calls = [p \in Cpus |-> 0]
    /\ load = "none" /\ handle = 0 /\ pool = {} /\ status = "none"

Go(from, to) == at = from /\ at' = to

Return(from, s) == Go(from, "done") /\ status' = s

-----------------------------------------------------------------------------
(***************************************************************************)
(* zpp_load_elf.                                                           *)
(***************************************************************************)

\* uefi_main locates the MP services.
LocateMpServices ==
    /\ \/ Go("main", "elf") /\ UNCHANGED status
       \/ Return("main", "load_error")
    /\ UNCHANGED <<elfVars, bsp, disabled, cpuVars, load, bootVars>>

\* elf.load takes a step.
ElfStep ==
    /\ at = "elf"
    /\ Allocate \/ MapSegment \/ GetRelocations \/ Relocate \/ RelocateEnds
          \/ ProtectSegment \/ Loaded
    /\ UNCHANGED <<bsp, disabled, at, cpuVars, load, bootVars, status>>

\* Mutant: uefi_main does not test the result.
LoadElfFailsUntested(from) ==
    /\ Go(from, "locate_handles")
    /\ load' = "failure"
    /\ UNCHANGED <<elfVars, bsp, disabled, cpuVars, bootVars, status>>

\* zpp_load_elf returns -1, and uefi_main an error.
LoadElfFails(from) ==
    /\ Return(from, "load_error")
    /\ load' = "failure"
    /\ UNCHANGED <<elfVars, bsp, disabled, cpuVars, bootVars>>

\* The file could not be loaded, or else the CPUs are counted.
NumberOfCpus ==
    \/ pc \in {"failed", "loaded"} /\ LoadElfFails("elf")
    \/ /\ pc = "loaded" /\ Go("elf", "loop")
       /\ UNCHANGED <<elfVars, bsp, disabled, cpuVars, load, bootVars, status>>

\* Mutant: the loop goes on after a failure.
CallReturnsUnchecked ==
    /\ Go("returned", "loop") /\ cpu' = cpu + 1
    /\ UNCHANGED <<elfVars, bsp, disabled, result, ap, join_event, returns, calls,
                   load, bootVars, status>>

\* call_on_cpu has returned: a failure ends the loop.
CallReturns ==
    \/ /\ result = 0 /\ Go("returned", "loop") /\ cpu' = cpu + 1
       /\ UNCHANGED <<elfVars, bsp, disabled, result, ap, join_event, returns, calls,
                      load, bootVars, status>>
    \/ result # 0 /\ LoadElfFails("returned")

\* The loop has ended.
LoadElfSucceeds ==
    /\ cpu = NumCpus /\ Go("loop", "locate_handles")
    /\ load' = "success"
    /\ UNCHANGED <<elfVars, bsp, disabled, cpuVars, bootVars, status>>

-----------------------------------------------------------------------------
(***************************************************************************)
(* call_on_cpu.                                                            *)
(***************************************************************************)

\* CPU 0 is taken for the one that runs the loader.
CallDirectly ==
    /\ cpu = 0 /\ Go("loop", "direct")
    /\ calls' = [calls EXCEPT ![bsp] = @ + 1]
    /\ UNCHANGED <<elfVars, bsp, disabled, cpu, result, ap, join_event, returns,
                   load, bootVars, status>>

\* The entry point returns on the loader's own CPU, or the CPU is lost.
DirectReturns ==
    /\ \/ \E r \in {0, 1} :
             Go("direct", "returned") /\ result' = r /\ returns' = [returns EXCEPT ![bsp] = r]
       \/ Go("direct", "lost") /\ UNCHANGED <<result, returns>>
    /\ UNCHANGED <<elfVars, bsp, disabled, cpu, ap, join_event, calls, load, bootVars, status>>

CreateEvent ==
    /\ cpu \in Cpus \ {0}
    /\ result' = Failure
    /\ \/ Go("loop", "startup") /\ join_event' = "created"
       \/ Go("loop", "returned") /\ UNCHANGED join_event
    /\ UNCHANGED <<elfVars, bsp, disabled, cpu, ap, returns, calls, load, bootVars, status>>

\* Mutant: the event is not closed if the AP was not started.
StartupThisApForgets ==
    /\ \/ /\ cpu \notin disabled \cup {bsp}
          /\ Go("startup", "blocked") /\ ap' = "entry" /\ calls' = [calls EXCEPT ![cpu] = @ + 1]
       \/ Go("startup", "returned") /\ UNCHANGED <<ap, calls>>
    /\ UNCHANGED <<elfVars, bsp, disabled, cpu, result, join_event, returns, load, bootVars, status>>

\* StartupThisAP in blocking mode and without a timeout: the AP calls the entry
\* point.  It refuses the CPU it is called on, and a disabled one.
StartupThisAp ==
    /\ \/ /\ cpu \notin disabled \cup {bsp}
          /\ Go("startup", "blocked") /\ ap' = "entry" /\ calls' = [calls EXCEPT ![cpu] = @ + 1]
       \/ Go("startup", "close") /\ UNCHANGED <<ap, calls>>
    /\ UNCHANGED <<elfVars, bsp, disabled, cpu, result, join_event, returns, load, bootVars, status>>

\* The AP: the entry point returns, or the AP is lost.
ApReturns ==
    /\ ap = "entry"
    /\ \/ /\ \E r \in {0, 1} : result' = r /\ returns' = [returns EXCEPT ![cpu] = r]
          /\ ap' = "signal"
       \/ ap' = "lost" /\ UNCHANGED <<result, returns>>
    /\ UNCHANGED <<elfVars, bsp, disabled, at, cpu, join_event, calls, load, bootVars, status>>

\* Mutant: the AP does not signal the event.
ApSignalsNothing ==
    /\ ap = "signal" /\ ap' = "idle"
    /\ UNCHANGED <<elfVars, bsp, disabled, at, cpu, result, join_event, returns, calls,
                   load, bootVars, status>>

\* The AP: the event is signaled, and the procedure ends.
ApSignals ==
    /\ ap = "signal" /\ ap' = "idle"
    /\ join_event' = "signaled"
    /\ UNCHANGED <<elfVars, bsp, disabled, at, cpu, result, returns, calls, load, bootVars, status>>

\* Mutant: the AP is started without waiting for its end.
StartupReturnsEarly ==
    /\ Go("blocked", "close")
    /\ UNCHANGED <<elfVars, bsp, disabled, cpuVars, load, bootVars, status>>

\* The blocking call ends when the AP has; WaitForEvent waits, or is refused, and
\* the event is closed at once.
StartupReturns ==
    /\ ap = "idle"
    /\ Go("blocked", "wait") \/ Go("blocked", "close")
    /\ UNCHANGED <<elfVars, bsp, disabled, cpuVars, load, bootVars, status>>

\* WaitForEvent takes the signal.
WaitForEvent ==
    /\ join_event = "signaled" /\ Go("wait", "close") /\ join_event' = "created"
    /\ UNCHANGED <<elfVars, bsp, disabled, cpu, result, ap, returns, calls, load, bootVars, status>>

CloseEvent ==
    /\ Go("close", "returned") /\ join_event' = "none"
    /\ UNCHANGED <<elfVars, bsp, disabled, cpu, result, ap, returns, calls, load, bootVars, status>>

-----------------------------------------------------------------------------
(***************************************************************************)
(* uefi_main, after the hypervisor is loaded.                              *)
(***************************************************************************)
LocateHandles ==
    /\ \/ Go("locate_handles", "handles") /\ pool' = pool \cup {"handles"} /\ UNCHANGED status
       \/ Return("locate_handles", "load_error") /\ UNCHANGED pool
    /\ UNCHANGED <<elfVars, bsp, disabled, cpuVars, load, handle>>

\* The loop over the handles has ended.
NoBootLoader ==
    /\ handle = Handles /\ Return("handles", "success")
    /\ UNCHANGED <<elfVars, bsp, disabled, cpuVars, load, bootVars>>

\* A handle without the protocol is skipped.  For another one file_device_path
\* locates the utilities and allocates memory for the path of the file.
FileDevicePath ==
    /\ handle < Handles
    /\ \/ /\ at = "handles" /\ handle' = handle + 1
          /\ UNCHANGED <<at, pool, status>>
       \/ /\ Go("handles", "append") /\ pool' = pool \cup {"file_path"}
          /\ UNCHANGED <<handle, status>>
       \/ /\ Return("handles", "load_error")
          /\ UNCHANGED bootVars
    /\ UNCHANGED <<elfVars, bsp, disabled, cpuVars, load>>

\* The rest of file_device_path.  The address of the device's path is stored in a
\* variable for the path itself, of half its size, which is then taken for the
\* path: what AppendDevicePath makes of it is a path, of any file, or nullptr.
AppendDevicePath ==
    /\ \/ /\ Go("append", "load_image")
          /\ pool' = (pool \ {"file_path"}) \cup {"full_path"}
          /\ UNCHANGED status
       \/ /\ Return("append", "load_error")
          /\ pool' = pool \ {"file_path"}
    /\ UNCHANGED <<elfVars, bsp, disabled, cpuVars, load, handle>>

\* LoadImage; the path is freed, and a failure leads to the next handle.
LoadImage ==
    /\ pool' = pool \ {"full_path"}
    /\ \/ Go("load_image", "image") /\ UNCHANGED handle
       \/ Go("load_image", "handles") /\ handle' = handle + 1
    /\ UNCHANGED <<elfVars, bsp, disabled, cpuVars, load, status>>

\* The image is started if it is a boot loader; it is not unloaded otherwise.
StartImage ==
    /\ \/ Go("image", "started") /\ UNCHANGED handle
       \/ Go("image", "handles") /\ handle' = handle + 1
    /\ UNCHANGED <<elfVars, bsp, disabled, cpuVars, load, pool, status>>

\* The boot loader may return; so does uefi_main then, with its status.
ImageReturns ==
    /\ \E s \in {"success", "image_error"} : Return("started", s)
    /\ UNCHANGED <<elfVars, bsp, disabled, cpuVars, load, bootVars>>

Ended == at \in {"done", "lost"} \/ ap = "lost"

\* The steps of the loader's CPU, and of the AP it has started.
BspNext ==
    \/ LocateMpServices \/ ElfStep \/ NumberOfCpus \/ CallReturns \/ LoadElfSucceeds
    \/ CallDirectly \/ DirectReturns \/ CreateEvent \/ StartupThisAp \/ StartupReturns
    \/ WaitForEvent \/ CloseEvent
    \/ LocateHandles \/ NoBootLoader \/ FileDevicePath \/ AppendDevicePath
    \/ LoadImage \/ StartImage
ApNext == ApReturns \/ ApSignals

UefiNext == BspNext \/ ApNext \/ ImageReturns

\* Each processor keeps running; a boot loader need not return.
UefiSpec ==
    UefiInit /\ [][UefiNext]_uefiVars /\ WF_uefiVars(BspNext) /\ WF_uefiVars(ApNext)

-----------------------------------------------------------------------------
(***************************************************************************)
(* Properties.                                                             *)
(***************************************************************************)

\* Where uefi_main is after the hypervisor was loaded.
Booting == {"locate_handles", "handles", "append", "load_image", "image", "started"}

\* A boot loader is looked for, and started, only when the entry point was called
\* once on every processor and returned 0 on each, whichever processor runs the
\* loader and whichever are disabled.
BootsOnHypervisor ==
    at \in Booting => \A p \in Cpus : calls[p] = 1 /\ returns[p] = 0

\* While the entry point runs, on whichever processor, the image is complete; the
\* result is not used, and its variable on the stack is not gone, before the AP
\* is through with it.
EntryIsJoined ==
    /\ at = "direct" \/ ap = "entry" => pc = "loaded" /\ base # 0
    /\ ap # "idle" => at = "blocked"

\* However uefi_main and call_on_cpu come back, the event they created is closed,
\* and of the memory only the buffer of the handles is not freed.
NothingLeaks ==
    /\ at \in {"loop", "returned", "done"} \cup Booting => join_event = "none"
    /\ at \in {"handles", "done"} => pool \subseteq {"handles"}

\* zpp_load_elf under UEFI keeps the promise of Virtualization, CPU 0 being the
\* processor that runs the loader.
Abstract == INSTANCE Virtualization
    WITH virtualized <- {c \in Cpus : returns[IF c = 0 THEN bsp ELSE c] = 0
                                        /\ (c # 0 => c # bsp)},
         outcome <- load
UefiImplementsVirtualization == Abstract!Spec

\* The loader ends: it returns or has started a boot loader, unless the entry
\* point does not return.
LoaderEnds == <>(Ended \/ at = "started")

=============================================================================
