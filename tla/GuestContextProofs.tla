------------------------- MODULE GuestContextProofs -------------------------
(***************************************************************************)
(* Proofs about GuestContext, for every caller and every guest, whatever   *)
(* their registers hold, and for every layout of the stacks that           *)
(* LayoutAssumption admits.                                                *)
(*                                                                         *)
(* The code has one thread of control, which moves from place to place by  *)
(* restoring contexts.  The inductive invariant ContextInv is the diagram  *)
(* of these places: the CPU is in one of twelve stages, and each stage     *)
(* says which contexts are in memory and what the registers, the frame of  *)
(* vm_launch and the VMCS have to do with the registers the operating      *)
(* system had when it called or left its guest.                            *)
(***************************************************************************)
EXTENDS GuestContext, TLAPS

CallerPlace == pushed.at - 117
GuestPlace == LaunchStackEnd - 2 * ContextSize
HostPlace == LaunchStackEnd - ContextSize

\* The registers of the operating system when it called or left the guest.
Os == trapped.regs

PushedInv ==
    /\ pushed \in [at : Int, rip : Nat]
    /\ Even(CallerPlace) /\ CallerPlace > StackEnd

\* The stages of the launch.
InCall ==
    /\ mode = "host"
    /\ trapped = [instr |-> "call", regs |-> Os, osxsave |-> osxsave, xcr0 |-> xcr0]
    /\ Os \in Callers /\ osxsave \in {0, 1} /\ xcr0 = {0}
    /\ pushed = [at |-> Os.rsp - 1, rip |-> Os.rip]

AtStart ==
    /\ InCall /\ gdt = "os"
    /\ regs = [Os EXCEPT !.rip = Start, !.rsp = Os.rsp - 1]
    /\ contexts = << >> /\ frame = ZeroFrame /\ vmcs = ZeroVmcs

AtLaunchOnCpu ==
    /\ InCall /\ gdt = "os"
    /\ regs \in Contexts
    /\ regs.rip = LaunchOnCpu /\ regs.rsp = CallerPlace - 1 /\ regs.rdi = CallerPlace
    /\ contexts = [a \in {CallerPlace} |-> Os] /\ frame = ZeroFrame /\ vmcs = ZeroVmcs

\* The contexts of launch_on_cpu: on the caller's stack and on the private one.
Called ==
    /\ InCall
    /\ contexts \in [{CallerPlace, StackTop} -> Contexts] /\ contexts[StackTop] = Os

AtPrivateStack ==
    /\ Called /\ gdt = "os"
    /\ regs = [Os EXCEPT !.rip = PrivateStack, !.rsp = StackTop - 1, !.rsi = StackTop]
    /\ frame = ZeroFrame /\ vmcs = ZeroVmcs

AtVmLaunch ==
    /\ Called /\ gdt = "intermediate"
    /\ regs \in Contexts
    /\ regs.rip = VmLaunch /\ regs.rsp = Frame /\ regs.intr = 0 /\ regs.cs = "os"
    /\ frame = [ZeroFrame EXCEPT !.guest_context = StackTop]
    /\ vmcs = [ZeroVmcs EXCEPT !.guest_intr = Os.intr, !.guest_cs = Os.cs,
                               !.guest_osxsave = osxsave, !.host_osxsave = osxsave]

AllPlaces == {CallerPlace, StackTop, GuestPlace, HostPlace}

\* The VMCS after the host state has been written.
Vmcss ==
    [host_rip : {VmExitEntry}, host_rsp : {GuestPlace}, host_osxsave : {0, 1},
     guest_rip : Int, guest_rsp : Int, guest_intr : {0, 1}, guest_cs : {"os"},
     guest_osxsave : {0, 1}, reason : Instructions \cup {"none"}]

\* What vm_launch leaves behind for every VM exit.
Captures(cs, flag) ==
    /\ contexts \in [AllPlaces -> Contexts]
    /\ contexts[HostPlace].rip = AfterCapture /\ contexts[HostPlace].rsp = Frame
    /\ contexts[HostPlace].intr = 0 /\ contexts[HostPlace].cs = cs
    /\ frame = [at |-> Frame, guest_context |-> StackTop, host_rsp |-> GuestPlace,
                vm_exit_flag |-> flag]
    /\ vmcs \in Vmcss

\* The guest state of the VMCS is that of the operating system.
Shadows ==
    /\ vmcs.guest_rsp = Os.rsp /\ vmcs.guest_intr = Os.intr /\ vmcs.guest_cs = Os.cs
    /\ vmcs.guest_osxsave = trapped.osxsave

AtAfterCapture ==
    /\ InCall /\ Captures("os", FALSE) /\ gdt = "intermediate"
    /\ contexts[StackTop] = Os /\ regs = contexts[HostPlace]
    /\ Shadows /\ vmcs.guest_rip = Os.rip

AtVmlaunch ==
    /\ InCall /\ Captures("host", TRUE) /\ gdt = "intermediate"
    /\ regs = [Os EXCEPT !.rip = Vmlaunch, !.intr = 0, !.rax = {}]
    /\ Shadows /\ vmcs.guest_rip = Os.rip

AtRefused ==
    /\ mode = "os" /\ trapped.instr = "call" /\ gdt = "os"
    /\ regs \in Contexts /\ regs.rip \in Nat
    /\ osxsave \in {0, 1} /\ xcr0 \in Words
    /\ contexts \in [{CallerPlace, StackTop} -> Contexts] /\ frame = ZeroFrame

\* The stages of the guest.
InGuest ==
    /\ mode = "guest" /\ gdt = "os" /\ trapped = NotTrapped
    /\ Captures("host", TRUE)
    /\ regs \in Contexts /\ regs.rip \in Nat /\ regs.cs = "os"
    /\ osxsave \in {0, 1} /\ xcr0 \in Words

InExit ==
    /\ mode = "host" /\ gdt = "host" /\ Captures("host", TRUE)
    /\ trapped = [instr |-> trapped.instr, regs |-> Os,
                  osxsave |-> trapped.osxsave, xcr0 |-> trapped.xcr0]
    /\ trapped.instr \in Instructions /\ vmcs.reason = trapped.instr
    /\ Os \in Contexts /\ Os.rip \in Nat /\ Os.cs = "os"
    /\ trapped.instr \in {"cpuid", "xsetbv"} => Os.rax = Low(Os.rax)
    /\ trapped.instr = "xsetbv" => Low(Os.rcx) = {} /\ ValidXcr0(Joined(Os))
    /\ trapped.osxsave \in {0, 1} /\ trapped.xcr0 \in Words
    /\ osxsave \in {0, 1} /\ Shadows

AtVmExitEntry ==
    /\ InExit /\ xcr0 = trapped.xcr0 /\ vmcs.guest_rip = Os.rip
    /\ regs = [Os EXCEPT !.rip = VmExitEntry, !.rsp = GuestPlace, !.intr = 0, !.cs = "host"]

\* The guest's context has been captured.
GuestCaptured ==
    /\ InExit /\ xcr0 = trapped.xcr0 /\ vmcs.guest_rip = Os.rip
    /\ contexts[GuestPlace] =
           [Os EXCEPT !.rip = Inside, !.rsp = GuestPlace, !.intr = 0, !.cs = "host"]

AtZppVmExit ==
    /\ GuestCaptured
    /\ regs \in Contexts
    /\ regs.rip = ZppVmExit /\ regs.rsp = GuestPlace - 1
    /\ regs.rdi = HostPlace /\ regs.intr = 0 /\ regs.cs = "host"

AtHandler == GuestCaptured /\ regs = contexts[HostPlace]

\* The registers and XCR0 with which an instruction is completed.
Answered ==
    LET a == Promise!Answer(Low(Os.rax), Low(Os.rcx))
    IN  IF trapped.instr = "cpuid"
        THEN [Os EXCEPT !.rax = Low(a.rax), !.rbx = Low(a.rbx),
                        !.rcx = Low(a.rcx), !.rdx = Low(a.rdx)]
        ELSE Os

AtVmresume ==
    /\ InExit
    /\ xcr0 = IF trapped.instr = "xsetbv" THEN Joined(Os) ELSE trapped.xcr0
    /\ vmcs.guest_rip = Os.rip + Length[trapped.instr]
    /\ regs = [Answered EXCEPT !.rip = Vmresume, !.rsp = GuestPlace, !.intr = 0, !.cs = "host"]

ContextInv ==
    /\ PushedInv
    /\ \/ AtStart \/ AtLaunchOnCpu \/ AtPrivateStack \/ AtVmLaunch
       \/ AtAfterCapture \/ AtVmlaunch \/ AtRefused \/ InGuest
       \/ AtVmExitEntry \/ AtZppVmExit \/ AtHandler \/ AtVmresume

-----------------------------------------------------------------------------
(***************************************************************************)
(* Places.                                                                 *)
(***************************************************************************)

\* The places of the contexts are distinct, in order, aligned and apart.
LEMMA PlacesApart ==
    ASSUME PushedInv
    PROVE  /\ {CallerPlace, StackTop, GuestPlace, HostPlace, Frame, StackEnd} \subseteq Int
           /\ Frame < GuestPlace
           /\ GuestPlace + ContextSize = HostPlace
           /\ HostPlace + ContextSize < StackTop
           /\ StackTop + ContextSize = StackEnd /\ StackEnd < CallerPlace
           /\ Even(CallerPlace) /\ Even(StackTop) /\ Even(GuestPlace) /\ Even(HostPlace)
  BY LayoutAssumption DEF PushedInv, CallerPlace, StackTop, GuestPlace, HostPlace,
     ContextSize, LaunchStackSize, Even

\* The changes the code makes to a context give a context.
LEMMA Updated ==
    ASSUME NEW c \in Contexts, NEW x \in Int
    PROVE  /\ [c EXCEPT !.rip = x] \in Contexts
           /\ \A w \in Words : [c EXCEPT !.rax = w] \in Contexts
           /\ \A s \in {"os", "host"} : [c EXCEPT !.cs = s] \in Contexts
           /\ \A y \in Int : [c EXCEPT !.rip = x, !.rsp = y] \in Contexts
           /\ \A y, z \in Int :
                 /\ [c EXCEPT !.rip = x, !.rsp = y, !.rsi = z] \in Contexts
                 /\ [c EXCEPT !.rip = x, !.rdi = z, !.rsp = y] \in Contexts
           /\ \A i \in {0, 1} :
                 /\ \A y \in Int : [c EXCEPT !.rip = x, !.rsp = y, !.intr = i] \in Contexts
                 /\ \A w \in Words :
                       [c EXCEPT !.rip = x, !.intr = i, !.rax = w] \in Contexts
                 /\ \A y \in Int, s \in {"os", "host"} :
                       [c EXCEPT !.rip = x, !.rsp = y, !.intr = i, !.cs = s] \in Contexts
  BY DEF Contexts

\* So do the results of cpuid.
LEMMA UpdatedByCpuid ==
    ASSUME NEW c \in Contexts, NEW w, NEW x, NEW y, NEW z
    PROVE  [c EXCEPT !.rax = Low(w), !.rbx = Low(x), !.rcx = Low(y), !.rdx = Low(z)]
               \in Contexts
<1>1. \A u : Low(u) \in Words
  BY DEF Low, Words
<1>2. \A a, b, d, e \in Words :
          [c EXCEPT !.rax = a, !.rbx = b, !.rcx = d, !.rdx = e] \in Contexts
  BY DEF Contexts
<1>3. QED
  BY <1>1, <1>2

\* So does compiled code.
LEMMA Clobbers == \A c \in Contexts : /\ Clobber(c) \in Contexts
                                      /\ Clobber(c).cs = c.cs
<1>1. \A c \in Contexts : \A w \in Words : \A r \in Rests :
          /\ [c EXCEPT !.rax = w, !.rbx = w, !.rcx = w, !.rdx = w, !.rest = r] \in Contexts
          /\ [c EXCEPT !.rax = w, !.rbx = w, !.rcx = w, !.rdx = w, !.rest = r].cs = c.cs
  BY ZenonT(40) DEF Contexts
<1>2. "host" \in Rests
  BY DEF Rests
<1>3. QED
  BY <1>1, <1>2, WordAssumption DEF Clobber

\* The stages of the launch are where their names say.
LEMMA LaunchPlaces ==
    /\ AtStart => At(Start)
    /\ AtLaunchOnCpu => At(LaunchOnCpu)
    /\ AtPrivateStack => At(PrivateStack)
    /\ AtVmLaunch => At(VmLaunch)
    /\ AtAfterCapture => At(AfterCapture) /\ ~frame.vm_exit_flag
    /\ AtVmlaunch => At(Vmlaunch)
<1>1. InCall => mode = "host" /\ Os \in Contexts
  BY CallerAssumption DEF InCall
<1>2. \A x, y, z : \A c \in Contexts :
          /\ [c EXCEPT !.rip = x, !.rsp = y].rip = x
          /\ [c EXCEPT !.rip = x, !.rsp = y, !.rsi = z].rip = x
          /\ [c EXCEPT !.rip = x, !.intr = y, !.rax = z].rip = x
  BY DEF Contexts
<1>3. AtStart => At(Start)
  BY <1>1, <1>2 DEF AtStart, At
<1>4. AtLaunchOnCpu => At(LaunchOnCpu)
  BY <1>1 DEF AtLaunchOnCpu, At
<1>5. AtPrivateStack => At(PrivateStack)
  BY <1>1, <1>2 DEF AtPrivateStack, Called, At
<1>6. AtVmLaunch => At(VmLaunch)
  BY <1>1 DEF AtVmLaunch, Called, At
<1>7. AtAfterCapture => At(AfterCapture) /\ ~frame.vm_exit_flag
  BY <1>1 DEF AtAfterCapture, Captures, At
<1>8. AtVmlaunch => At(Vmlaunch)
  BY <1>1, <1>2 DEF AtVmlaunch, At
<1>9. QED
  BY <1>3, <1>4, <1>5, <1>6, <1>7, <1>8

\* So are those of a VM exit.
LEMMA ExitPlaces ==
    /\ AtVmExitEntry => At(VmExitEntry)
    /\ AtZppVmExit => At(ZppVmExit)
    /\ AtHandler => At(AfterCapture) /\ frame.vm_exit_flag
    /\ AtVmresume => At(Vmresume)
<1>1. InExit => mode = "host" /\ Os \in Contexts /\ Answered \in Contexts
  <2>1. InExit => mode = "host" /\ Os \in Contexts
    BY DEF InExit
  <2>2. QED
    BY <2>1, UpdatedByCpuid DEF Answered
<1>2. \A x, y, u, v : \A c \in Contexts :
          [c EXCEPT !.rip = x, !.rsp = y, !.intr = u, !.cs = v].rip = x
  BY DEF Contexts
<1>3. AtVmExitEntry => At(VmExitEntry)
  BY <1>1, <1>2 DEF AtVmExitEntry, At
<1>4. AtZppVmExit => At(ZppVmExit)
  BY <1>1 DEF AtZppVmExit, GuestCaptured, At
<1>5. AtHandler => At(AfterCapture) /\ frame.vm_exit_flag
  BY <1>1 DEF AtHandler, GuestCaptured, InExit, Captures, At
<1>6. AtVmresume => At(Vmresume)
  BY <1>1, <1>2 DEF AtVmresume, At
<1>7. QED
  BY <1>3, <1>4, <1>5, <1>6

\* Where the CPU is decides on the stage it is in.
LEMMA Stages ==
    ASSUME ContextInv
    PROVE  /\ At(Start) => AtStart
           /\ At(LaunchOnCpu) => AtLaunchOnCpu
           /\ At(PrivateStack) => AtPrivateStack
           /\ At(VmLaunch) => AtVmLaunch
           /\ At(AfterCapture) /\ ~frame.vm_exit_flag => AtAfterCapture
           /\ At(Vmlaunch) => AtVmlaunch
           /\ At(VmExitEntry) => AtVmExitEntry
           /\ At(ZppVmExit) => AtZppVmExit
           /\ At(AfterCapture) /\ frame.vm_exit_flag => AtHandler
           /\ At(Vmresume) => AtVmresume
           /\ mode = "guest" => InGuest
           /\ mode = "os" => AtRefused
<1> USE LaunchPlaces, ExitPlaces DEF ContextInv, Start, LaunchOnCpu, PrivateStack,
    VmLaunch, AfterCapture, Vmlaunch, VmExitEntry, ZppVmExit, Vmresume, At
<1>1. AtRefused => mode = "os"
  BY DEF AtRefused
<1>2. InGuest => mode = "guest"
  BY DEF InGuest
<1>3. QED
  BY <1>1, <1>2

-----------------------------------------------------------------------------
(***************************************************************************)
(* The launch, step by step.                                               *)
(***************************************************************************)
LEMMA InitContext == ASSUME Init PROVE ContextInv
<1>1. PICK c \in Callers :
          /\ regs = [c EXCEPT !.rip = Start, !.rsp = c.rsp - 1]
          /\ pushed = [at |-> c.rsp - 1, rip |-> c.rip]
          /\ trapped = [instr |-> "call", regs |-> c, osxsave |-> osxsave, xcr0 |-> {0}]
  BY DEF Init
<1>2. /\ c \in Contexts /\ c.rsp \in Int /\ c.rip \in Nat /\ Even(c.rsp)
      /\ c.rsp > StackEnd + 2 * ContextSize
  BY CallerAssumption DEF Contexts
<1>3. PushedInv
  BY <1>1, <1>2, LayoutAssumption DEF PushedInv, CallerPlace, Even, ContextSize
<1>4. AtStart
  BY <1>1 DEF Init, AtStart, InCall, Os
<1>5. QED
  BY <1>3, <1>4 DEF ContextInv

\* What a step leaves alone stays so.
LEMMA CallGoesOn ==
    ASSUME InCall, UNCHANGED <<mode, osxsave, xcr0, pushed, trapped>>
    PROVE  InCall' /\ Os' = Os /\ CallerPlace' = CallerPlace
  BY DEF InCall, Os, CallerPlace

LEMMA OsIsContext ==
    ASSUME InCall
    PROVE  /\ Os \in Contexts /\ Os.rip \in Nat /\ Os.cs = "os" /\ Os.rsp \in Int
           /\ pushed.at = Os.rsp - 1 /\ pushed.rip = Os.rip
  BY CallerAssumption DEF InCall, Contexts

LEMMA StartCalledStep == ASSUME AtStart, StartCalled PROVE AtLaunchOnCpu'
<1>1. InCall /\ InCall' /\ Os' = Os /\ CallerPlace' = CallerPlace
  BY CallGoesOn DEF AtStart, StartCalled
<1>2. /\ Os \in Contexts /\ Os.rip \in Nat /\ Os.cs = "os" /\ Os.rsp \in Int
      /\ pushed.at = Os.rsp - 1 /\ pushed.rip = Os.rip
  BY <1>1, OsIsContext
<1>3. regs \in Contexts /\ regs.rsp - 117 = CallerPlace
  <2>1. /\ regs = [Os EXCEPT !.rip = Start, !.rsp = Os.rsp - 1]
        /\ Start \in Int /\ Os.rsp - 1 \in Int
    BY <1>2 DEF AtStart, Start
  <2>2. regs \in Contexts
    BY <1>2, <2>1, Updated
  <2>3. regs.rsp = Os.rsp - 1
    BY <1>2, <2>1 DEF Contexts
  <2>4. QED
    BY <1>2, <2>2, <2>3 DEF CallerPlace
<1> DEFINE a == CallerPlace
           c == CapturedIntoStack(regs, a)
           d == [c EXCEPT !.rip = Load(a + 117), !.rsp = a + 118]
<1>4. Load(a + 117) = Os.rip /\ a + 118 = Os.rsp
  BY <1>2 DEF Load, CallerPlace
<1>5. d = Os
  BY <1>2, <1>3, <1>4, ZenonT(40) DEF AtStart, CapturedIntoStack, Contexts
<1>6. contexts' = [b \in {a} |-> Os]
  <2>1. contexts' = Stored(contexts, a, Os)
    BY <1>3, <1>5 DEF StartCalled, Store
  <2>2. QED
    BY <2>1 DEF Stored, AtStart
<1>7. /\ regs' \in Contexts
      /\ regs'.rip = LaunchOnCpu /\ regs'.rsp = a - 1 /\ regs'.rdi = a
  <2>1. regs' = [Clobber(regs) EXCEPT !.rip = LaunchOnCpu, !.rdi = a, !.rsp = a - 1]
    BY <1>3 DEF StartCalled
  <2>2. Clobber(regs) \in Contexts
    BY <1>3, Clobbers
  <2>3. a \in Int /\ a - 1 \in Int /\ LaunchOnCpu \in Int
    BY <1>2 DEF CallerPlace, LaunchOnCpu
  <2>4. regs' \in Contexts
    BY <2>1, <2>2, <2>3, Updated
  <2>5. QED
    BY <2>1, <2>2, <2>4 DEF Contexts
<1>8. QED
  BY <1>1, <1>6, <1>7 DEF AtLaunchOnCpu, StartCalled, AtStart

LEMMA LaunchOnPrivateStackStep ==
    ASSUME PushedInv, AtLaunchOnCpu, LaunchOnPrivateStack
    PROVE  AtPrivateStack'
<1>1. InCall /\ InCall' /\ Os' = Os /\ CallerPlace' = CallerPlace
  BY CallGoesOn DEF AtLaunchOnCpu, LaunchOnPrivateStack
<1>2. Os \in Contexts /\ Os.cs = "os"
  BY <1>1, OsIsContext
<1>3. CallerPlace # StackTop /\ StackTop - 1 \in Int /\ StackTop \in Int
  BY PlacesApart DEF ContextSize
<1> DEFINE c == [Os EXCEPT !.rip = PrivateStack, !.rsp = StackTop - 1, !.rsi = StackTop]
<1>4. c \in Contexts /\ c.cs = "os"
  <2>1. PrivateStack \in Int
    BY DEF PrivateStack
  <2>2. c \in Contexts
    BY <1>2, <1>3, <2>1, Updated
  <2>3. QED
    BY <1>2, <2>2 DEF Contexts
<1>5. regs.rdi = CallerPlace /\ contexts[CallerPlace] = Os /\ gdt = "os"
  BY DEF AtLaunchOnCpu
<1>6. regs' = c
  BY <1>4, <1>5 DEF LaunchOnPrivateStack, Restore, Loadable
<1>7. contexts' = Stored(Stored(contexts, CallerPlace, c), StackTop, Os)
  BY <1>5 DEF LaunchOnPrivateStack, Store
<1>8. contexts' \in [{CallerPlace, StackTop} -> Contexts] /\ contexts'[StackTop] = Os
  BY <1>2, <1>3, <1>4, <1>7 DEF Stored, AtLaunchOnCpu
<1>9. QED
  BY <1>1, <1>6, <1>8 DEF AtPrivateStack, AtLaunchOnCpu, Called, LaunchOnPrivateStack

\* The values launch_on_cpu_private_stack is called with.
LEMMA OnPrivateStack ==
    ASSUME AtPrivateStack
    PROVE  /\ InCall /\ Os \in Contexts /\ Os.rip \in Nat /\ Os.cs = "os"
           /\ regs \in Contexts /\ regs.rsi = StackTop /\ regs.cs = "os"
           /\ contexts[regs.rsi] = Os
<1>1. InCall /\ Os \in Contexts /\ Os.rip \in Nat /\ Os.cs = "os"
  BY OsIsContext DEF AtPrivateStack, Called
<1>2. regs = [Os EXCEPT !.rip = PrivateStack, !.rsp = StackTop - 1, !.rsi = StackTop]
  BY DEF AtPrivateStack
<1>3. regs.rsi = StackTop /\ regs.cs = "os"
  BY <1>1, <1>2 DEF Contexts
<1>4. PrivateStack \in Int /\ StackTop \in Int /\ StackTop - 1 \in Int
  BY LayoutAssumption DEF PrivateStack, StackTop, ContextSize
<1>5. regs \in Contexts
  BY <1>1, <1>2, <1>4, Updated
<1>6. QED
  BY <1>1, <1>3, <1>5 DEF AtPrivateStack, Called

LEMMA MainFailsStep ==
    ASSUME PushedInv, AtPrivateStack, MainFails
    PROVE  AtRefused' /\ \E e \in Errors : regs' = [Os EXCEPT !.rax = e]
<1>1. /\ InCall /\ Os \in Contexts /\ Os.rip \in Nat /\ Os.cs = "os"
      /\ regs.rsi = StackTop /\ contexts[regs.rsi] = Os
  BY OnPrivateStack
<1>2. PICK e \in Errors :
          /\ contexts' = Store(regs.rsi, [contexts[regs.rsi] EXCEPT !.rax = e])
          /\ regs' = Restore([contexts[regs.rsi] EXCEPT !.rax = e], gdt)
  BY DEF MainFails
<1> DEFINE c == [Os EXCEPT !.rax = e]
<1>3. c \in Contexts /\ c.cs = "os" /\ c.rip \in Nat
  <2>1. e \in Words
    BY WordAssumption
  <2>2. c \in Contexts
    BY <1>1, <2>1 DEF Contexts
  <2>3. QED
    BY <1>1, <2>2 DEF Contexts
<1>4. regs' = c
  BY <1>1, <1>2, <1>3 DEF Restore, Loadable, AtPrivateStack
<1>5. contexts' \in [{CallerPlace, StackTop} -> Contexts]
  BY <1>1, <1>2, <1>3 DEF Store, Stored, AtPrivateStack, Called
<1>6. AtRefused'
  <2>1. CallerPlace' = CallerPlace
    BY DEF MainFails, CallerPlace
  <2>2. trapped.instr = "call" /\ osxsave \in {0, 1} /\ xcr0 \in Words
    BY <1>1 DEF InCall, Words
  <2>3. QED
    BY <1>3, <1>4, <1>5, <2>1, <2>2 DEF AtRefused, MainFails, AtPrivateStack
<1>7. QED
  BY <1>4, <1>6

LEMMA MainSucceedsStep ==
    ASSUME PushedInv, AtPrivateStack, MainSucceeds
    PROVE  AtVmLaunch'
<1>1. /\ InCall /\ Os \in Contexts /\ regs \in Contexts /\ regs.cs = "os"
      /\ regs.rsi = StackTop /\ contexts[regs.rsi] = Os
  BY OnPrivateStack
<1>2. InCall' /\ Os' = Os /\ CallerPlace' = CallerPlace
  BY <1>1, CallGoesOn DEF MainSucceeds
<1>3. Called'
  BY <1>2 DEF Called, AtPrivateStack, MainSucceeds
<1>4. /\ regs' \in Contexts
      /\ regs'.rip = VmLaunch /\ regs'.rsp = Frame /\ regs'.intr = 0 /\ regs'.cs = "os"
  <2>1. regs' = [Clobber(regs) EXCEPT !.rip = VmLaunch, !.rsp = Frame, !.intr = 0]
    BY DEF MainSucceeds
  <2>2. Clobber(regs) \in Contexts /\ Clobber(regs).cs = "os"
    BY <1>1, Clobbers
  <2>3. VmLaunch \in Int /\ Frame \in Int
    BY LayoutAssumption DEF VmLaunch
  <2>4. regs' \in Contexts
    BY <2>1, <2>2, <2>3, Updated
  <2>5. QED
    BY <2>1, <2>2, <2>4 DEF Contexts
<1>5. frame' = [ZeroFrame EXCEPT !.guest_context = StackTop]
  BY <1>1 DEF MainSucceeds, AtPrivateStack
<1>6. vmcs' = [ZeroVmcs EXCEPT !.guest_intr = Os.intr, !.guest_cs = Os.cs,
                               !.guest_osxsave = osxsave, !.host_osxsave = osxsave]
  BY <1>1 DEF MainSucceeds, AtPrivateStack
<1>7. QED
  BY <1>2, <1>3, <1>4, <1>5, <1>6 DEF AtVmLaunch, MainSucceeds

LEMMA CaptureHostStep ==
    ASSUME PushedInv, AtVmLaunch, CaptureHost
    PROVE  AtAfterCapture'
<1>1. InCall /\ Os \in Contexts /\ Os.cs = "os"
  BY OsIsContext DEF AtVmLaunch, Called
<1>2. InCall' /\ Os' = Os /\ CallerPlace' = CallerPlace
  BY <1>1, CallGoesOn DEF CaptureHost
<1>3. frame.guest_context = StackTop /\ contexts[frame.guest_context] = Os
  BY DEF AtVmLaunch, Called, ZeroFrame
<1> DEFINE host == Captured(regs, AfterCapture)
<1>4. /\ host \in Contexts
      /\ host.rip = AfterCapture /\ host.rsp = Frame /\ host.intr = 0 /\ host.cs = "os"
  <2>1. regs \in Contexts /\ regs.rsp = Frame /\ regs.intr = 0 /\ regs.cs = "os"
    BY DEF AtVmLaunch
  <2>2. host = [regs EXCEPT !.rip = AfterCapture] /\ AfterCapture \in Int
    BY DEF Captured, AfterCapture
  <2>3. host \in Contexts
    BY <2>1, <2>2, Updated
  <2>4. QED
    BY <2>1, <2>2, <2>3 DEF Contexts
<1>5. GuestPlace + ContextSize = HostPlace /\ Frame \in Int /\ GuestPlace \in Int
  BY PlacesApart
<1>6. contexts' = Stored(Stored(contexts, GuestPlace, ZeroContext), HostPlace, host)
  BY <1>5 DEF CaptureHost, Store, GuestPlace
<1>7. ZeroContext \in Contexts
  BY DEF ZeroContext, Contexts, Words, Rests
<1>8. /\ contexts' \in [AllPlaces -> Contexts]
      /\ contexts'[HostPlace] = host /\ contexts'[StackTop] = Os
  <2>1. contexts \in [{CallerPlace, StackTop} -> Contexts] /\ contexts[StackTop] = Os
    BY DEF AtVmLaunch, Called
  <2>2. HostPlace # StackTop /\ GuestPlace # StackTop
    BY PlacesApart DEF ContextSize
  <2>3. QED
    BY <1>4, <1>6, <1>7, <2>1, <2>2 DEF Stored, AllPlaces
<1>9. frame' = [at |-> Frame, guest_context |-> StackTop, host_rsp |-> GuestPlace,
                vm_exit_flag |-> FALSE]
  BY DEF CaptureHost, AtVmLaunch, ZeroFrame, GuestPlace
<1>10. /\ vmcs' \in Vmcss
       /\ vmcs'.guest_rip = Os.rip /\ vmcs'.guest_rsp = Os.rsp
       /\ vmcs'.guest_intr = Os.intr /\ vmcs'.guest_cs = Os.cs
       /\ vmcs'.guest_osxsave = osxsave
  <2>1. vmcs' = [host_rip |-> VmExitEntry, host_rsp |-> GuestPlace,
                 host_osxsave |-> osxsave, guest_rip |-> Os.rip, guest_rsp |-> Os.rsp,
                 guest_intr |-> Os.intr, guest_cs |-> Os.cs,
                 guest_osxsave |-> osxsave, reason |-> "none"]
    BY <1>3 DEF CaptureHost, AtVmLaunch, ZeroVmcs, GuestPlace
  <2>2. Os.rip \in Int /\ Os.rsp \in Int /\ Os.intr \in {0, 1} /\ osxsave \in {0, 1}
    BY <1>1 DEF Contexts, InCall
  <2>3. QED
    BY <1>1, <2>1, <2>2 DEF Vmcss
<1>11. trapped'.osxsave = osxsave
  BY <1>1 DEF CaptureHost, InCall
<1>12. Captures("os", FALSE)'
  BY <1>2, <1>4, <1>8, <1>9, <1>10 DEF Captures, AllPlaces
<1>13. QED
  BY <1>2, <1>8, <1>10, <1>11, <1>12 DEF AtAfterCapture, Shadows, CaptureHost, AtVmLaunch

LEMMA LaunchGuestStep ==
    ASSUME PushedInv, AtAfterCapture, LaunchGuest
    PROVE  AtVmlaunch'
<1>1. InCall /\ Os \in Contexts /\ Os.cs = "os"
  BY OsIsContext DEF AtAfterCapture
<1>2. InCall' /\ Os' = Os /\ CallerPlace' = CallerPlace
  BY <1>1, CallGoesOn DEF LaunchGuest
<1>3. /\ frame = [at |-> Frame, guest_context |-> StackTop, host_rsp |-> GuestPlace,
                  vm_exit_flag |-> FALSE]
      /\ contexts \in [AllPlaces -> Contexts] /\ contexts[StackTop] = Os
      /\ gdt = "intermediate"
  BY DEF AtAfterCapture, Captures
<1>4. frame.host_rsp + ContextSize = HostPlace /\ frame.guest_context = StackTop
  BY <1>3, PlacesApart
<1> DEFINE old == contexts[HostPlace]
           host == [old EXCEPT !.cs = "host"]
           guest == [Os EXCEPT !.rip = Vmlaunch, !.intr = 0, !.rax = {}]
<1>5. /\ old \in Contexts /\ old.rip = AfterCapture /\ old.rsp = Frame /\ old.intr = 0
  BY DEF AtAfterCapture, Captures, AllPlaces
<1>6. /\ host \in Contexts /\ host.rip = AfterCapture /\ host.rsp = Frame
      /\ host.intr = 0 /\ host.cs = "host"
  <2>1. host \in Contexts
    BY <1>5 DEF Contexts
  <2>2. QED
    BY <1>5, <2>1 DEF Contexts
<1>7. guest \in Contexts /\ guest.cs = "os"
  <2>1. Vmlaunch \in Int /\ {} \in Words
    BY DEF Vmlaunch, Words
  <2>2. guest \in Contexts
    BY <1>1, <2>1, Updated
  <2>3. QED
    BY <1>1, <2>2 DEF Contexts
<1>8. /\ contexts' = Stored(Stored(contexts, StackTop, guest), HostPlace, host)
      /\ regs' = Restore(guest, gdt)
  BY <1>3, <1>4, <1>6 DEF LaunchGuest, Store
<1>9. regs' = guest
  BY <1>3, <1>7, <1>8 DEF Restore, Loadable
<1>10. contexts' \in [AllPlaces -> Contexts] /\ contexts'[HostPlace] = host
  BY <1>3, <1>6, <1>7, <1>8 DEF Stored, AllPlaces
<1>11. frame' = [at |-> Frame, guest_context |-> StackTop, host_rsp |-> GuestPlace,
                 vm_exit_flag |-> TRUE]
  BY <1>3 DEF LaunchGuest
<1>12. Captures("host", TRUE)'
  BY <1>2, <1>6, <1>10, <1>11 DEF Captures, AllPlaces, AtAfterCapture, LaunchGuest, Vmcss
<1>13. QED
  BY <1>2, <1>9, <1>12 DEF AtVmlaunch, AtAfterCapture, Shadows, LaunchGuest

-----------------------------------------------------------------------------
(***************************************************************************)
(* The guest and its exits, step by step.                                  *)
(***************************************************************************)

\* VM entry takes rip, rsp, the flags and the code segment from the VMCS, and
\* the other registers stay.
LEMMA Entered ==
    ASSUME regs \in Contexts, Captures("host", TRUE), vmcs.guest_rip \in Nat,
           xcr0 \in Words, Enter
    PROVE  /\ InGuest' /\ osxsave' = vmcs.guest_osxsave /\ xcr0' = xcr0
           /\ regs' = [regs EXCEPT !.rip = vmcs.guest_rip, !.rsp = vmcs.guest_rsp,
                                   !.intr = vmcs.guest_intr, !.cs = "os"]
<1>1. /\ vmcs \in Vmcss /\ vmcs.guest_cs = "os" /\ vmcs.guest_osxsave \in {0, 1}
      /\ vmcs.guest_rip \in Int /\ vmcs.guest_rsp \in Int /\ vmcs.guest_intr \in {0, 1}
      /\ vmcs.guest_cs \in {"os", "host"}
  BY DEF Captures, Vmcss
<1>2. regs' = [regs EXCEPT !.rip = vmcs.guest_rip, !.rsp = vmcs.guest_rsp,
                           !.intr = vmcs.guest_intr, !.cs = vmcs.guest_cs]
  BY DEF Enter
<1>3. regs' \in Contexts
  BY <1>1, <1>2, Updated
<1>4. regs'.rip \in Nat /\ regs'.cs = "os"
  BY <1>1, <1>2, <1>3 DEF Contexts
<1>5. Captures("host", TRUE)'
  BY DEF Captures, Enter, AllPlaces, CallerPlace, Vmcss
<1>6. QED
  BY <1>1, <1>2, <1>3, <1>4, <1>5 DEF InGuest, Enter

LEMMA VmlaunchStep ==
    ASSUME AtVmlaunch, EnterByVmlaunch
    PROVE  InGuest' /\ regs' = [Os EXCEPT !.rax = {}] /\ osxsave' = trapped.osxsave
           /\ xcr0' = xcr0
<1>1. /\ InCall /\ Os \in Contexts /\ Os.rip \in Nat /\ Os.cs = "os"
      /\ Os.rsp \in Int /\ Os.intr \in {0, 1}
  BY OsIsContext DEF AtVmlaunch, Contexts
<1> DEFINE c == [Os EXCEPT !.rip = Vmlaunch, !.intr = 0, !.rax = {}]
<1>2. c \in Contexts
  <2>1. Vmlaunch \in Int /\ {} \in Words
    BY DEF Vmlaunch, Words
  <2>2. QED
    BY <1>1, <2>1, Updated
<1>3. /\ Captures("host", TRUE) /\ vmcs.guest_rip = Os.rip /\ vmcs.guest_rsp = Os.rsp
      /\ vmcs.guest_intr = Os.intr /\ regs = c /\ Enter
      /\ vmcs.guest_osxsave = trapped.osxsave
  BY DEF AtVmlaunch, Shadows, EnterByVmlaunch
<1>4. xcr0 \in Words
  BY <1>1 DEF InCall, Words
<1>5. /\ InGuest' /\ osxsave' = trapped.osxsave /\ xcr0' = xcr0
      /\ regs' = [c EXCEPT !.rip = Os.rip, !.rsp = Os.rsp, !.intr = Os.intr, !.cs = "os"]
  BY <1>1, <1>2, <1>3, <1>4, Entered
<1>6. [c EXCEPT !.rip = Os.rip, !.rsp = Os.rsp, !.intr = Os.intr, !.cs = "os"]
          = [Os EXCEPT !.rax = {}]
  BY <1>1 DEF Contexts
<1>7. QED
  BY <1>5, <1>6

LEMMA GuestRunsStep == ASSUME InGuest, GuestRuns PROVE InGuest'
<1>1. /\ regs' \in Contexts /\ regs'.rip \in Nat /\ regs'.cs = "os"
  BY GuestAssumption DEF GuestRuns
<1>2. Captures("host", TRUE)'
  BY DEF Captures, InGuest, GuestRuns, AllPlaces, CallerPlace, Vmcss
<1>3. QED
  BY <1>1, <1>2 DEF InGuest, GuestRuns

LEMMA ExitStep ==
    ASSUME PushedInv, InGuest, NEW instr \in Instructions, Exit(instr)
    PROVE  AtVmExitEntry' /\ Os' = regs
<1>1. /\ trapped' = [instr |-> instr, regs |-> regs, osxsave |-> osxsave, xcr0 |-> xcr0]
      /\ Os' = regs /\ trapped'.instr = instr
  BY DEF Exit, Os
<1>2. /\ regs \in Contexts /\ regs.rip \in Nat /\ regs.cs = "os" /\ regs.rsp \in Int
      /\ regs.intr \in {0, 1} /\ osxsave \in {0, 1} /\ xcr0 \in Words
  BY DEF InGuest, Contexts
<1>3. vmcs \in Vmcss /\ vmcs.host_rip = VmExitEntry /\ vmcs.host_rsp = GuestPlace
  BY DEF InGuest, Captures, Vmcss
<1>4. /\ vmcs' \in Vmcss /\ vmcs'.reason = instr
      /\ vmcs'.guest_rip = regs.rip /\ vmcs'.guest_rsp = regs.rsp
      /\ vmcs'.guest_intr = regs.intr /\ vmcs'.guest_cs = regs.cs
      /\ vmcs'.guest_osxsave = osxsave
  <2>1. vmcs' = [vmcs EXCEPT !.guest_rip = regs.rip, !.guest_rsp = regs.rsp,
                            !.guest_intr = regs.intr, !.guest_cs = regs.cs,
                            !.guest_osxsave = osxsave, !.reason = instr]
    BY DEF Exit
  <2>2. /\ regs.rip \in Int /\ regs.rsp \in Int /\ regs.cs \in {"os"}
        /\ instr \in Instructions \cup {"none"}
    BY <1>2
  <2>3. vmcs' = [host_rip |-> vmcs.host_rip, host_rsp |-> vmcs.host_rsp,
                 host_osxsave |-> vmcs.host_osxsave, guest_rip |-> regs.rip,
                 guest_rsp |-> regs.rsp, guest_intr |-> regs.intr,
                 guest_cs |-> regs.cs, guest_osxsave |-> osxsave, reason |-> instr]
    BY <1>3, <2>1 DEF Vmcss
  <2>4. vmcs.host_osxsave \in {0, 1}
    BY <1>3 DEF Vmcss
  <2>5. vmcs' \in Vmcss
    BY <1>2, <1>3, <2>2, <2>3, <2>4 DEF Vmcss
  <2>6. QED
    BY <2>3, <2>5
<1>5. Captures("host", TRUE)'
  BY <1>4 DEF Captures, InGuest, Exit, AllPlaces, CallerPlace
<1>6. Shadows'
  BY <1>1, <1>4 DEF Shadows
<1>7. osxsave' \in {0, 1}
  BY <1>3 DEF Exit, Vmcss
<1>8. /\ instr \in {"cpuid", "xsetbv"} => regs.rax = Low(regs.rax)
      /\ instr = "xsetbv" => Low(regs.rcx) = {} /\ ValidXcr0(Joined(regs))
  BY DEF Exit, Executes
<1>9. InExit'
  <2>1. mode' = "host" /\ gdt' = "host"
    BY DEF Exit
  <2>2. trapped' = [instr |-> trapped'.instr, regs |-> Os',
                    osxsave |-> trapped'.osxsave, xcr0 |-> trapped'.xcr0]
    BY <1>1
  <2>3. trapped'.osxsave \in {0, 1} /\ trapped'.xcr0 \in Words
    BY <1>1, <1>2
  <2>4. /\ trapped'.instr \in {"cpuid", "xsetbv"} => Os'.rax = Low(Os'.rax)
        /\ trapped'.instr = "xsetbv" => Low(Os'.rcx) = {} /\ ValidXcr0(Joined(Os'))
    BY <1>1, <1>8
  <2>5. QED
    BY <1>1, <1>2, <1>4, <1>5, <1>6, <1>7, <2>1, <2>2, <2>3, <2>4 DEF InExit
<1>10. regs' = [regs EXCEPT !.rip = VmExitEntry, !.rsp = GuestPlace, !.intr = 0, !.cs = "host"]
  BY <1>3 DEF Exit
<1>11. xcr0' = trapped'.xcr0
  BY <1>1 DEF Exit
<1>12. QED
  BY <1>1, <1>4, <1>9, <1>10, <1>11 DEF AtVmExitEntry

\* What a step of the handler leaves alone stays so.
LEMMA ExitGoesOn ==
    ASSUME InExit, UNCHANGED <<mode, gdt, pushed, frame, trapped>>,
           osxsave' \in {0, 1}, vmcs' \in Vmcss,
           vmcs' = [vmcs EXCEPT !.guest_rip = vmcs'.guest_rip],
           contexts' \in [AllPlaces -> Contexts],
           contexts'[HostPlace] = contexts[HostPlace]
    PROVE  InExit' /\ Os' = Os
<1>1. Os' = Os /\ AllPlaces' = AllPlaces
  BY DEF Os, AllPlaces, CallerPlace
<1>2. Captures("host", TRUE)'
  BY <1>1 DEF Captures, InExit
<1>3. /\ vmcs'.reason = vmcs.reason /\ vmcs'.guest_rsp = vmcs.guest_rsp
      /\ vmcs'.guest_intr = vmcs.guest_intr /\ vmcs'.guest_cs = vmcs.guest_cs
      /\ vmcs'.guest_osxsave = vmcs.guest_osxsave
  BY DEF InExit, Captures, Vmcss
<1>4. Shadows'
  BY <1>1, <1>3 DEF Shadows, InExit
<1>5. QED
  BY <1>1, <1>2, <1>3, <1>4 DEF InExit

LEMMA CaptureGuestStep ==
    ASSUME PushedInv, AtVmExitEntry, CaptureGuest
    PROVE  AtZppVmExit'
<1>1. InExit /\ Os \in Contexts
  BY DEF AtVmExitEntry, InExit
<1>2. /\ GuestPlace \in Int /\ GuestPlace - 1 \in Int /\ HostPlace \in Int
      /\ GuestPlace + ContextSize = HostPlace /\ GuestPlace # HostPlace
  BY PlacesApart DEF ContextSize
<1>3. /\ regs = [Os EXCEPT !.rip = VmExitEntry, !.rsp = GuestPlace, !.intr = 0, !.cs = "host"]
      /\ VmExitEntry \in Int /\ ZppVmExit \in Int
  BY DEF AtVmExitEntry, VmExitEntry, ZppVmExit
<1>4. regs \in Contexts
  BY <1>1, <1>2, <1>3, Updated
<1>5. regs.rsp = GuestPlace /\ regs.intr = 0 /\ regs.cs = "host"
  BY <1>1, <1>3 DEF Contexts
<1> DEFINE c == CapturedIntoStack(regs, GuestPlace)
<1>6. c = [Os EXCEPT !.rip = Inside, !.rsp = GuestPlace, !.intr = 0, !.cs = "host"]
  BY <1>1, <1>3 DEF CapturedIntoStack, Contexts
<1>7. c \in Contexts
  <2>1. Inside \in Int
    BY DEF Inside
  <2>2. CapturedIntoStack(regs, GuestPlace) \in Contexts
    BY <1>2, <1>4, <2>1, Updated DEF CapturedIntoStack
  <2>3. QED
    BY <2>2
<1>8. contexts' = Stored(contexts, GuestPlace, c)
  BY <1>5 DEF CaptureGuest, Store
<1>9. /\ contexts' \in [AllPlaces -> Contexts]
      /\ contexts'[HostPlace] = contexts[HostPlace] /\ contexts'[GuestPlace] = c
  <2>1. contexts \in [AllPlaces -> Contexts]
    BY <1>1 DEF InExit, Captures
  <2> HIDE DEF c
  <2>2. QED
    BY <1>2, <1>7, <1>8, <2>1 DEF Stored, AllPlaces
<1>10. InExit' /\ Os' = Os
  <2>1. vmcs \in Vmcss /\ osxsave \in {0, 1}
    BY <1>1 DEF InExit, Captures
  <2>2. vmcs' = vmcs /\ osxsave' = osxsave
    BY DEF CaptureGuest
  <2>3. vmcs' = [vmcs EXCEPT !.guest_rip = vmcs'.guest_rip]
    BY <2>1, <2>2 DEF Vmcss
  <2>4. UNCHANGED <<mode, gdt, pushed, frame, trapped>>
    BY DEF CaptureGuest
  <2>5. QED
    BY <1>1, <1>9, <2>1, <2>2, <2>3, <2>4, ExitGoesOn
<1>11. /\ regs' \in Contexts
       /\ regs'.rip = ZppVmExit /\ regs'.rsp = GuestPlace - 1
       /\ regs'.rdi = HostPlace /\ regs'.intr = 0 /\ regs'.cs = "host"
  <2>1. regs' = [regs EXCEPT !.rip = ZppVmExit, !.rdi = HostPlace, !.rsp = GuestPlace - 1]
    BY <1>2, <1>5 DEF CaptureGuest
  <2>2. regs' \in Contexts
    BY <1>2, <1>3, <1>4, <2>1, Updated
  <2>3. QED
    BY <1>4, <1>5, <2>1, <2>2 DEF Contexts
<1>12. GuestCaptured'
  BY <1>6, <1>9, <1>10 DEF GuestCaptured, AtVmExitEntry, CaptureGuest
<1>13. QED
  BY <1>11, <1>12 DEF AtZppVmExit

LEMMA RestoreHostStep ==
    ASSUME AtZppVmExit, RestoreHost
    PROVE  AtHandler'
<1>1. /\ GuestCaptured /\ InExit /\ gdt = "host" /\ regs.rdi = HostPlace
      /\ contexts[HostPlace].cs = "host"
  BY DEF AtZppVmExit, GuestCaptured, InExit, Captures
<1>2. regs' = contexts[HostPlace]
  BY <1>1 DEF RestoreHost, Restore, Loadable
<1>3. GuestCaptured'
  BY <1>1 DEF GuestCaptured, RestoreHost, InExit, Captures, Shadows, AllPlaces,
     CallerPlace, Os, Vmcss
<1>4. QED
  BY <1>2, <1>3 DEF AtHandler, RestoreHost

\* The end of the handler: the guest's context, completed, executes vmresume.
LEMMA Resumed ==
    ASSUME PushedInv, AtHandler, NEW d \in Contexts, d.cs = "host",
           Resume(d), osxsave' \in {0, 1}
    PROVE  /\ InExit' /\ Os' = Os
           /\ vmcs'.guest_rip = Os.rip + Length[trapped.instr]
           /\ regs' = [d EXCEPT !.rip = Vmresume]
<1>1. /\ InExit /\ vmcs.guest_rip = Os.rip /\ Os.rip \in Nat /\ gdt = "host"
      /\ vmcs.reason = trapped.instr /\ trapped.instr \in Instructions
  BY DEF AtHandler, GuestCaptured, InExit
<1>2. frame.host_rsp = GuestPlace /\ vmcs \in Vmcss /\ contexts \in [AllPlaces -> Contexts]
  BY <1>1 DEF InExit, Captures
<1> DEFINE e == [d EXCEPT !.rip = Vmresume]
<1>3. e \in Contexts /\ e.cs = "host"
  <2>1. Vmresume \in Int
    BY DEF Vmresume
  <2>2. e \in Contexts
    BY <2>1, Updated
  <2>3. QED
    BY <2>2 DEF Contexts
<1>4. regs' = e /\ contexts' = Stored(contexts, GuestPlace, e)
  BY <1>1, <1>2, <1>3 DEF Resume, Restore, Loadable, Store
<1>5. contexts' \in [AllPlaces -> Contexts] /\ contexts'[HostPlace] = contexts[HostPlace]
  <2>1. GuestPlace # HostPlace
    BY PlacesApart DEF ContextSize
  <2> HIDE DEF e
  <2>2. QED
    BY <1>2, <1>3, <1>4, <2>1 DEF Stored, AllPlaces
<1>6. /\ vmcs' \in Vmcss /\ vmcs'.guest_rip = Os.rip + Length[trapped.instr]
      /\ vmcs' = [vmcs EXCEPT !.guest_rip = vmcs'.guest_rip]
  <2>1. vmcs' = [vmcs EXCEPT !.guest_rip = vmcs.guest_rip + Length[vmcs.reason]]
    BY DEF Resume
  <2>2. Os.rip + Length[trapped.instr] \in Int
    BY <1>1, InstructionAssumption
  <2>3. QED
    BY <1>1, <1>2, <2>1, <2>2 DEF Vmcss
<1>7. UNCHANGED <<mode, gdt, pushed, frame, trapped>>
  BY DEF Resume
<1>8. QED
  BY <1>1, <1>4, <1>5, <1>6, <1>7, ExitGoesOn

\* The context the handler finds.
LEMMA FoundContext ==
    ASSUME PushedInv, AtHandler
    PROVE  /\ InExit /\ Os \in Contexts /\ vmcs.reason = trapped.instr
           /\ xcr0 = trapped.xcr0 /\ osxsave \in {0, 1}
           /\ GuestsContext = [Os EXCEPT !.rip = Inside, !.rsp = GuestPlace,
                                         !.intr = 0, !.cs = "host"]
           /\ GuestsContext \in Contexts /\ GuestsContext.cs = "host"
           /\ GuestsContext.rax = Os.rax /\ GuestsContext.rcx = Os.rcx
           /\ GuestsContext.rdx = Os.rdx
<1>1. /\ InExit /\ Os \in Contexts /\ vmcs.reason = trapped.instr
      /\ xcr0 = trapped.xcr0 /\ osxsave \in {0, 1}
  BY DEF AtHandler, GuestCaptured, InExit
<1>2. GuestsContext = [Os EXCEPT !.rip = Inside, !.rsp = GuestPlace, !.intr = 0, !.cs = "host"]
  BY <1>1 DEF GuestsContext, AtHandler, GuestCaptured, InExit, Captures
<1>3. Inside \in Int /\ GuestPlace \in Int /\ 0 \in {0, 1} /\ "host" \in {"os", "host"}
  BY PlacesApart DEF Inside
<1>4. GuestsContext \in Contexts
  BY <1>1, <1>2, <1>3, Updated
<1>5. QED
  BY <1>1, <1>2, <1>4 DEF Contexts

\* A skipped instruction, and invd.
LEMMA SkipStep ==
    ASSUME PushedInv, AtHandler, Resume(GuestsContext), UNCHANGED <<osxsave, xcr0>>,
           trapped.instr \notin {"cpuid", "xsetbv"}
    PROVE  AtVmresume'
<1> DEFINE c == GuestsContext
<1>1. /\ InExit /\ Os \in Contexts /\ xcr0 = trapped.xcr0 /\ osxsave \in {0, 1}
      /\ c = [Os EXCEPT !.rip = Inside, !.rsp = GuestPlace, !.intr = 0, !.cs = "host"]
      /\ c \in Contexts /\ c.cs = "host"
  BY FoundContext
<1>2. /\ InExit' /\ Os' = Os /\ vmcs'.guest_rip = Os.rip + Length[trapped.instr]
      /\ regs' = [c EXCEPT !.rip = Vmresume]
  BY <1>1, Resumed
<1>3. trapped' = trapped
  BY DEF Resume
<1>4. Answered' = Os
  BY <1>2, <1>3 DEF Answered
<1>5. regs' = [Os EXCEPT !.rip = Vmresume, !.rsp = GuestPlace, !.intr = 0, !.cs = "host"]
  BY <1>1, <1>2 DEF Contexts
<1>6. QED
  BY <1>1, <1>2, <1>3, <1>4, <1>5 DEF AtVmresume

LEMMA XsetbvStep ==
    ASSUME PushedInv, AtHandler, HandleXsetbv
    PROVE  AtVmresume'
<1> DEFINE c == GuestsContext
<1>1. /\ InExit /\ Os \in Contexts /\ osxsave \in {0, 1} /\ vmcs.reason = trapped.instr
      /\ c = [Os EXCEPT !.rip = Inside, !.rsp = GuestPlace, !.intr = 0, !.cs = "host"]
      /\ c \in Contexts /\ c.cs = "host"
      /\ c.rax = Os.rax /\ c.rcx = Os.rcx /\ c.rdx = Os.rdx
  BY FoundContext
<1>2. trapped.instr = "xsetbv"
  BY <1>1 DEF HandleXsetbv, Handling
<1>3. Low(c.rcx) = {} /\ ValidXcr0(Joined(c)) /\ Joined(c) = Joined(Os)
  BY <1>1, <1>2 DEF InExit, Joined
<1>4. osxsave' = 1 /\ xcr0' = Joined(Os) /\ Resume(c)
  BY <1>1, <1>3 DEF HandleXsetbv
<1>5. /\ InExit' /\ Os' = Os /\ vmcs'.guest_rip = Os.rip + Length[trapped.instr]
      /\ regs' = [c EXCEPT !.rip = Vmresume]
  BY <1>1, <1>4, Resumed
<1>6. trapped' = trapped
  BY <1>4 DEF Resume
<1>7. Answered' = Os
  BY <1>2, <1>5, <1>6 DEF Answered
<1>8. regs' = [Os EXCEPT !.rip = Vmresume, !.rsp = GuestPlace, !.intr = 0, !.cs = "host"]
  BY <1>1, <1>5 DEF Contexts
<1>9. Joined(Os)' = Joined(Os)
  BY <1>5 DEF Joined
<1>10. QED
  BY <1>2, <1>4, <1>5, <1>6, <1>7, <1>8, <1>9 DEF AtVmresume

LEMMA CpuidStep ==
    ASSUME PushedInv, AtHandler, HandleCpuid
    PROVE  AtVmresume'
<1> DEFINE c == GuestsContext
           a == Promise!Answer(Low(Os.rax), Low(Os.rcx))
           d == [c EXCEPT !.rax = Low(a.rax), !.rbx = Low(a.rbx),
                          !.rcx = Low(a.rcx), !.rdx = Low(a.rdx)]
<1>1. /\ InExit /\ Os \in Contexts /\ osxsave \in {0, 1} /\ vmcs.reason = trapped.instr
      /\ xcr0 = trapped.xcr0
      /\ c = [Os EXCEPT !.rip = Inside, !.rsp = GuestPlace, !.intr = 0, !.cs = "host"]
      /\ c \in Contexts /\ c.cs = "host"
      /\ c.rax = Os.rax /\ c.rcx = Os.rcx /\ c.rdx = Os.rdx
  BY FoundContext
<1>2. trapped.instr = "cpuid" /\ Os.rax = Low(Os.rax)
  BY <1>1 DEF HandleCpuid, Handling, InExit
<1>3. Resume(d) /\ UNCHANGED <<osxsave, xcr0>>
  BY <1>1, <1>2 DEF HandleCpuid, Promise!Answer, Low, Promise!Low
<1>4. d \in Contexts /\ d.cs = "host"
  <2>1. d \in Contexts
    BY <1>1, UpdatedByCpuid
  <2>2. QED
    BY <1>1, <2>1 DEF Contexts
<1>5. /\ InExit' /\ Os' = Os /\ vmcs'.guest_rip = Os.rip + Length[trapped.instr]
      /\ regs' = [d EXCEPT !.rip = Vmresume]
  <2> HIDE DEF d
  <2> QED
    BY <1>1, <1>3, <1>4, Resumed
<1>6. trapped' = trapped
  BY <1>3 DEF Resume
<1> DEFINE answered == [Os EXCEPT !.rax = Low(a.rax), !.rbx = Low(a.rbx),
                                  !.rcx = Low(a.rcx), !.rdx = Low(a.rdx)]
<1>7. Answered' = answered
  BY <1>2, <1>5, <1>6 DEF Answered
<1>8. regs' = [answered EXCEPT !.rip = Vmresume, !.rsp = GuestPlace, !.intr = 0,
                               !.cs = "host"]
  <2> HIDE DEF a
  <2> QED
    BY <1>1, <1>5 DEF Contexts
<1>9. QED
  BY <1>1, <1>2, <1>3, <1>5, <1>6, <1>7, <1>8 DEF AtVmresume

LEMMA VmresumeStep ==
    ASSUME AtVmresume, EnterByVmresume
    PROVE  /\ InGuest' /\ osxsave' = trapped.osxsave /\ xcr0' = xcr0
           /\ regs' = [Answered EXCEPT !.rip = Os.rip + Length[trapped.instr]]
<1>1. /\ InExit /\ Os \in Contexts /\ Os.rip \in Nat /\ Os.cs = "os"
      /\ trapped.instr \in Instructions /\ trapped.xcr0 \in Words
  BY DEF AtVmresume, InExit
<1>2. /\ Captures("host", TRUE) /\ vmcs.guest_rsp = Os.rsp /\ vmcs.guest_intr = Os.intr
      /\ vmcs.guest_osxsave = trapped.osxsave /\ Enter
      /\ vmcs.guest_rip = Os.rip + Length[trapped.instr] /\ vmcs.guest_rip \in Nat
  <2>1. Length[trapped.instr] \in Nat
    BY <1>1, InstructionAssumption
  <2>2. vmcs.guest_rip = Os.rip + Length[trapped.instr]
    BY DEF AtVmresume
  <2>3. vmcs.guest_rip \in Nat
    BY <1>1, <2>1, <2>2
  <2>4. QED
    BY <2>2, <2>3 DEF AtVmresume, InExit, Shadows, EnterByVmresume
<1>3. /\ Answered \in Contexts /\ Answered.rsp = Os.rsp /\ Answered.intr = Os.intr
      /\ Answered.cs = "os"
  <2>1. Answered \in Contexts
    BY <1>1, UpdatedByCpuid DEF Answered
  <2>2. QED
    BY <1>1, <2>1 DEF Answered, Contexts
<1>4. regs = [Answered EXCEPT !.rip = Vmresume, !.rsp = GuestPlace, !.intr = 0, !.cs = "host"]
  BY DEF AtVmresume
<1>5. regs \in Contexts
  <2>1. Vmresume \in Int /\ GuestPlace \in Int /\ 0 \in {0, 1} /\ "host" \in {"os", "host"}
    BY LayoutAssumption DEF Vmresume, GuestPlace, ContextSize
  <2>2. QED
    BY <1>3, <1>4, <2>1, Updated
<1>6. xcr0 \in Words
  <2>1. Joined(Os) \in Words
    BY <1>1 DEF Joined, Low, Words, Contexts
  <2>2. QED
    BY <1>1, <2>1 DEF AtVmresume
<1>7. /\ InGuest' /\ osxsave' = trapped.osxsave /\ xcr0' = xcr0
      /\ regs' = [regs EXCEPT !.rip = Os.rip + Length[trapped.instr], !.rsp = Os.rsp,
                              !.intr = Os.intr, !.cs = "os"]
  BY <1>2, <1>5, <1>6, Entered
<1>8. [regs EXCEPT !.rip = Os.rip + Length[trapped.instr], !.rsp = Os.rsp,
                   !.intr = Os.intr, !.cs = "os"]
          = [Answered EXCEPT !.rip = Os.rip + Length[trapped.instr]]
  BY <1>3, <1>4 DEF Contexts
<1>9. QED
  BY <1>7, <1>8

-----------------------------------------------------------------------------
(***************************************************************************)
(* The invariant and what follows from it.                                 *)
(***************************************************************************)

\* The step of one stage leads into the next stage.
LEMMA NextContext == ASSUME ContextInv, [Next]_vars PROVE ContextInv'
<1>1. pushed' = pushed /\ PushedInv
  BY DEF ContextInv, Next, vars, Host, StartCalled, LaunchOnPrivateStack, MainFails,
     MainSucceeds, CaptureHost, LaunchGuest, EnterByVmlaunch, EnterByVmresume, Enter,
     CaptureGuest, RestoreHost, HandleCpuid, HandleXsetbv, HandleInvd, HandleOther,
     Resume, Refused, GuestRuns, Exit
<1>2. PushedInv'
  BY <1>1 DEF PushedInv, CallerPlace
<1>3. CASE StartCalled
  BY <1>1, <1>2, <1>3, Stages, StartCalledStep DEF StartCalled, ContextInv
<1>4. CASE LaunchOnPrivateStack
  BY <1>1, <1>2, <1>4, Stages, LaunchOnPrivateStackStep DEF LaunchOnPrivateStack, ContextInv
<1>5. CASE MainFails
  BY <1>1, <1>2, <1>5, Stages, MainFailsStep DEF MainFails, ContextInv
<1>6. CASE MainSucceeds
  BY <1>1, <1>2, <1>6, Stages, MainSucceedsStep DEF MainSucceeds, ContextInv
<1>7. CASE CaptureHost
  BY <1>1, <1>2, <1>7, Stages, CaptureHostStep DEF CaptureHost, ContextInv
<1>8. CASE LaunchGuest
  BY <1>1, <1>2, <1>8, Stages, LaunchGuestStep DEF LaunchGuest, ContextInv
<1>9. CASE EnterByVmlaunch
  BY <1>1, <1>2, <1>9, Stages, VmlaunchStep DEF EnterByVmlaunch, ContextInv
<1>10. CASE CaptureGuest
  BY <1>1, <1>2, <1>10, Stages, CaptureGuestStep DEF CaptureGuest, ContextInv
<1>11. CASE RestoreHost
  BY <1>1, <1>2, <1>11, Stages, RestoreHostStep DEF RestoreHost, ContextInv
<1>12. CASE HandleCpuid
  BY <1>1, <1>2, <1>12, Stages, CpuidStep DEF HandleCpuid, Handling, ContextInv
<1>13. CASE HandleXsetbv
  BY <1>1, <1>2, <1>13, Stages, XsetbvStep DEF HandleXsetbv, Handling, ContextInv
<1>14. CASE HandleInvd
  <2>1. AtHandler /\ trapped.instr = "invd"
    BY <1>14, Stages, FoundContext, <1>1 DEF HandleInvd, Handling
  <2>2. QED
    BY <1>1, <1>2, <1>14, <2>1, SkipStep DEF HandleInvd, ContextInv
<1>15. CASE HandleOther
  <2>1. AtHandler /\ trapped.instr \notin {"cpuid", "xsetbv"}
    BY <1>15, Stages, FoundContext, <1>1 DEF HandleOther, Handling
  <2>2. QED
    BY <1>1, <1>2, <1>15, <2>1, SkipStep DEF HandleOther, ContextInv
<1>16. CASE EnterByVmresume
  BY <1>1, <1>2, <1>16, Stages, VmresumeStep DEF EnterByVmresume, ContextInv
<1>17. CASE GuestRuns
  BY <1>1, <1>2, <1>17, Stages, GuestRunsStep DEF GuestRuns, ContextInv
<1>18. ASSUME NEW instr \in Instructions, Exit(instr) PROVE ContextInv'
  BY <1>1, <1>2, <1>18, Stages, ExitStep DEF Exit, ContextInv
<1>19. CASE UNCHANGED vars
  <2>1. UNCHANGED <<mode, regs, osxsave, gdt, xcr0, pushed, contexts, frame, vmcs, trapped>>
    BY <1>19 DEF vars
  <2>2. PushedInv' = PushedInv /\ CallerPlace' = CallerPlace /\ Os' = Os
    BY <2>1 DEF PushedInv, CallerPlace, Os
  <2>3. InCall' = InCall /\ AllPlaces' = AllPlaces /\ Shadows' = Shadows
    BY <2>1, <2>2 DEF InCall, AllPlaces, Shadows
  <2>4. Called' = Called /\ \A cs, done : Captures(cs, done)' = Captures(cs, done)
    BY <2>1, <2>2, <2>3 DEF Called, Captures, Vmcss
  <2>5. InExit' = InExit /\ Answered' = Answered
    BY <2>1, <2>2, <2>3, <2>4 DEF InExit, Answered
  <2>6. GuestCaptured' = GuestCaptured
    BY <2>1, <2>2, <2>5 DEF GuestCaptured
  <2>7. /\ AtStart' = AtStart /\ AtLaunchOnCpu' = AtLaunchOnCpu
        /\ AtPrivateStack' = AtPrivateStack /\ AtVmLaunch' = AtVmLaunch
    BY <2>1, <2>2, <2>3, <2>4 DEF AtStart, AtLaunchOnCpu, AtPrivateStack, AtVmLaunch
  <2>8. /\ AtAfterCapture' = AtAfterCapture /\ AtVmlaunch' = AtVmlaunch
        /\ AtRefused' = AtRefused /\ InGuest' = InGuest
    BY <2>1, <2>2, <2>3, <2>4 DEF AtAfterCapture, AtVmlaunch, AtRefused, InGuest
  <2>9. /\ AtVmExitEntry' = AtVmExitEntry /\ AtZppVmExit' = AtZppVmExit
        /\ AtHandler' = AtHandler /\ AtVmresume' = AtVmresume
    BY <2>1, <2>2, <2>5, <2>6 DEF AtVmExitEntry, AtZppVmExit, AtHandler, AtVmresume
  <2>10. QED
    BY <2>2, <2>7, <2>8, <2>9 DEF ContextInv
<1>20. CASE Refused
  BY <1>19, <1>20 DEF Refused
<1>21. QED
  BY <1>3, <1>4, <1>5, <1>6, <1>7, <1>8, <1>9, <1>10, <1>11, <1>12, <1>13, <1>14,
     <1>15, <1>16, <1>17, <1>18, <1>19, <1>20 DEF Next, Host

\* In every reachable state the CPU is in a stage of the launch, of the guest or
\* of a VM exit, with what that stage says in the registers and in memory.
THEOREM ContextInvariance == Safety => []ContextInv
<1>1. Init => ContextInv
  BY InitContext
<1>2. ContextInv /\ [Next]_vars => ContextInv'
  BY NextContext
<1>3. QED
  BY <1>1, <1>2, PTL DEF Safety

\* What the stages say of the registers.
LEMMA StageRegs ==
    ASSUME ContextInv
    PROVE  /\ regs \in Contexts
           /\ regs.rip \in Nat \cup {Start, LaunchOnCpu, PrivateStack, VmLaunch,
                    AfterCapture, Vmlaunch, VmExitEntry, ZppVmExit, Vmresume}
           /\ mode = "host" /\ gdt # "os" => regs.intr = 0
<1> DEFINE P == /\ regs \in Contexts
                /\ regs.rip \in Nat \cup {Start, LaunchOnCpu, PrivateStack, VmLaunch,
                         AfterCapture, Vmlaunch, VmExitEntry, ZppVmExit, Vmresume}
                /\ mode = "host" /\ gdt # "os" => regs.intr = 0
<1>1. InCall => Os \in Contexts /\ Os.rsp - 1 \in Int
  BY OsIsContext
<1>2. InExit => Os \in Contexts /\ Answered \in Contexts
  BY UpdatedByCpuid DEF InExit, Answered
<1>3. /\ PushedInv /\ GuestPlace \in Int
      /\ Start \in Int /\ Vmlaunch \in Int /\ VmExitEntry \in Int /\ Vmresume \in Int
  BY PlacesApart DEF ContextInv, Start, Vmlaunch, VmExitEntry, Vmresume
<1>4. 0 \in {0, 1} /\ "host" \in {"os", "host"} /\ {} \in Words
  BY DEF Words
<1>5. AtStart => P
  <2>1. ASSUME AtStart PROVE regs \in Contexts /\ gdt = "os"
    <3>1. /\ InCall /\ gdt = "os"
          /\ regs = [Os EXCEPT !.rip = Start, !.rsp = Os.rsp - 1]
      BY <2>1 DEF AtStart
    <3>2. QED
      BY <3>1, <1>1, <1>3, Updated
  <2>2. QED
    BY <2>1, LaunchPlaces DEF At
<1>6. AtLaunchOnCpu => P
  BY DEF AtLaunchOnCpu
<1>7. AtPrivateStack => P
  <2>1. AtPrivateStack => regs \in Contexts /\ gdt = "os"
    BY OnPrivateStack DEF AtPrivateStack
  <2>2. QED
    BY <2>1, LaunchPlaces DEF At
<1>8. AtVmLaunch => P
  BY DEF AtVmLaunch
<1>9. AtAfterCapture => P
  BY DEF AtAfterCapture, Captures, AllPlaces
<1>10. AtVmlaunch => P
  <2>1. ASSUME AtVmlaunch PROVE regs \in Contexts
    <3>1. /\ InCall
          /\ regs = [Os EXCEPT !.rip = Vmlaunch, !.intr = 0, !.rax = {}]
      BY <2>1 DEF AtVmlaunch
    <3>2. QED
      BY <3>1, <1>1, <1>3, <1>4, Updated
  <2>2. AtVmlaunch => regs.intr = 0
    BY <1>1 DEF AtVmlaunch, Contexts
  <2>3. QED
    BY <2>1, <2>2, LaunchPlaces DEF At
<1>11. AtRefused => P
  BY DEF AtRefused
<1>12. InGuest => P
  BY DEF InGuest
<1>13. AtVmExitEntry => P
  <2>1. ASSUME AtVmExitEntry PROVE regs \in Contexts
    <3>1. /\ InExit
          /\ regs = [Os EXCEPT !.rip = VmExitEntry, !.rsp = GuestPlace,
                            !.intr = 0, !.cs = "host"]
      BY <2>1 DEF AtVmExitEntry
    <3>2. QED
      BY <3>1, <1>2, <1>3, <1>4, Updated
  <2>2. AtVmExitEntry => regs.intr = 0
    BY <1>2 DEF AtVmExitEntry, Contexts
  <2>3. QED
    BY <2>1, <2>2, ExitPlaces DEF At
<1>14. AtZppVmExit => P
  BY DEF AtZppVmExit
<1>15. AtHandler => P
  BY DEF AtHandler, GuestCaptured, InExit, Captures, AllPlaces
<1>16. AtVmresume => P
  <2>1. ASSUME AtVmresume PROVE regs \in Contexts
    <3>1. /\ InExit
          /\ regs = [Answered EXCEPT !.rip = Vmresume, !.rsp = GuestPlace,
                                  !.intr = 0, !.cs = "host"]
      BY <2>1 DEF AtVmresume
    <3>2. QED
      BY <3>1, <1>2, <1>3, <1>4, Updated
  <2>2. AtVmresume => regs.intr = 0
    BY <1>2 DEF AtVmresume, Contexts
  <2>3. QED
    BY <2>1, <2>2, ExitPlaces DEF At
<1>17. P
  <2> HIDE DEF P
  <2> QED
    BY <1>5, <1>6, <1>7, <1>8, <1>9, <1>10, <1>11, <1>12, <1>13, <1>14, <1>15, <1>16
       DEF ContextInv
<1>18. QED
  BY <1>17

\* No context that is restored has a code segment the loaded GDT lacks, and
\* xsetbv is executed with CR4.OSXSAVE: the hypervisor raises no exception.
THEOREM HypervisorDoesNotFault == Spec => []NoFault
<1>1. ContextInv => NoFault
  BY StageRegs DEF NoFault, Fault, Start, LaunchOnCpu, PrivateStack, VmLaunch,
     AfterCapture, Vmlaunch, VmExitEntry, ZppVmExit, Vmresume
<1>2. QED
  BY <1>1, ContextInvariance, PTL DEF Spec

\* Interrupts are off from the load of the intermediate GDT to VM entry, and from
\* VM exit to the next VM entry.
THEOREM InterruptsStayOff == Spec => []InterruptsAreOff
<1>1. ContextInv => InterruptsAreOff
  BY StageRegs DEF InterruptsAreOff
<1>2. QED
  BY <1>1, ContextInvariance, PTL DEF Spec

\* What the stages say of the stack: it is the caller's, or below the context on
\* the private stack, or below all of them.
StackInv ==
    mode = "host" =>
        /\ regs.rsp \in Int
        /\ \/ regs.rsp >= StackEnd
           \/ DOMAIN contexts \subseteq {CallerPlace, StackTop} /\ regs.rsp =< StackTop
           \/ regs.rsp =< GuestPlace
        /\ regs.rip \in {LaunchOnCpu, PrivateStack, ZppVmExit} => ~Even(regs.rsp)
        /\ regs.rip = AfterCapture => regs.rsp = frame.at

LEMMA StackOfStages == ASSUME ContextInv PROVE StackInv
<1>1. /\ PushedInv
      /\ CallerPlace \in Int /\ StackTop \in Int /\ GuestPlace \in Int /\ HostPlace \in Int
      /\ Frame \in Int /\ StackEnd \in Int
      /\ Frame < GuestPlace /\ GuestPlace < HostPlace /\ HostPlace < StackTop
      /\ StackTop < StackEnd /\ StackEnd < CallerPlace
  BY PlacesApart DEF ContextInv, ContextSize
<1>2. /\ Even(CallerPlace) /\ Even(StackTop) /\ Even(GuestPlace)
      /\ ~Even(CallerPlace - 1) /\ ~Even(StackTop - 1) /\ ~Even(GuestPlace - 1)
  BY <1>1, PlacesApart DEF Even
<1>3. InCall => /\ Os \in Contexts /\ Os.rsp \in Int /\ Os.rsp - 1 >= StackEnd
  BY <1>1, OsIsContext, LayoutAssumption DEF CallerPlace
<1>4. InExit => Os \in Contexts /\ Answered \in Contexts
  BY UpdatedByCpuid DEF InExit, Answered
<1> USE DEF StackInv
<1>5. AtStart => StackInv
  <2>1. ASSUME AtStart PROVE regs.rsp = Os.rsp - 1 /\ regs.rip = Start
    BY <1>3, <2>1 DEF AtStart, Contexts
  <2>2. QED
    BY <1>1, <1>3, <2>1 DEF AtStart, Start, LaunchOnCpu, PrivateStack, ZppVmExit, AfterCapture
<1>6. AtLaunchOnCpu => StackInv
  BY <1>1, <1>2 DEF AtLaunchOnCpu, LaunchOnCpu, AfterCapture
<1>7. AtPrivateStack => StackInv
  <2>1. ASSUME AtPrivateStack PROVE regs.rsp = StackTop - 1 /\ regs.rip = PrivateStack
    BY <1>3, <2>1 DEF AtPrivateStack, Called, Contexts
  <2>2. QED
    BY <1>1, <1>2, <2>1 DEF AtPrivateStack, Called, PrivateStack, AfterCapture
<1>8. AtVmLaunch => StackInv
  BY <1>1 DEF AtVmLaunch, VmLaunch, LaunchOnCpu, PrivateStack, ZppVmExit, AfterCapture
<1>9. AtAfterCapture => StackInv
  BY <1>1 DEF AtAfterCapture, Captures, LaunchOnCpu, PrivateStack, ZppVmExit, AfterCapture
<1>10. AtVmlaunch => StackInv
  <2>1. ASSUME AtVmlaunch PROVE regs.rsp = Os.rsp /\ regs.rip = Vmlaunch
    BY <1>3, <2>1 DEF AtVmlaunch, Contexts
  <2>2. QED
    BY <1>1, <1>3, <2>1 DEF AtVmlaunch, Vmlaunch, LaunchOnCpu, PrivateStack, ZppVmExit,
       AfterCapture
<1>11. AtRefused \/ InGuest => StackInv
  BY DEF AtRefused, InGuest
<1>12. AtVmExitEntry => StackInv
  <2>1. ASSUME AtVmExitEntry PROVE regs.rsp = GuestPlace /\ regs.rip = VmExitEntry
    BY <1>4, <2>1 DEF AtVmExitEntry, Contexts
  <2>2. QED
    BY <1>1, <2>1 DEF VmExitEntry, LaunchOnCpu, PrivateStack, ZppVmExit, AfterCapture
<1>13. AtZppVmExit => StackInv
  BY <1>1, <1>2 DEF AtZppVmExit, ZppVmExit, AfterCapture
<1>14. AtHandler => StackInv
  BY <1>1 DEF AtHandler, GuestCaptured, InExit, Captures, LaunchOnCpu, PrivateStack,
     ZppVmExit, AfterCapture
<1>15. AtVmresume => StackInv
  <2>1. ASSUME AtVmresume PROVE regs.rsp = GuestPlace /\ regs.rip = Vmresume
    BY <1>4, <2>1 DEF AtVmresume, Contexts
  <2>2. QED
    BY <1>1, <2>1 DEF Vmresume, LaunchOnCpu, PrivateStack, ZppVmExit, AfterCapture
<1> HIDE DEF StackInv
<1>16. QED
  BY <1>5, <1>6, <1>7, <1>8, <1>9, <1>10, <1>11, <1>12, <1>13, <1>14, <1>15 DEF ContextInv

\* What they say of memory and of the rest of the state.
LEMMA TypeOfStages ==
    ASSUME ContextInv
    PROVE  /\ TypeOK /\ AllPlaces = Places
           /\ \E s \in SUBSET AllPlaces : contexts \in [s -> Contexts]
<1> DEFINE P == /\ mode \in {"host", "guest", "os"} /\ gdt \in {"os", "intermediate", "host"}
                /\ osxsave \in {0, 1} /\ xcr0 \in Words
                /\ \E s \in SUBSET AllPlaces : contexts \in [s -> Contexts]
                /\ frame.guest_context \in {0, StackTop} /\ frame.vm_exit_flag \in BOOLEAN
                /\ trapped.instr \in Instructions \cup {"call", "none"}
<1>1. InCall => /\ mode = "host" /\ osxsave \in {0, 1} /\ xcr0 \in Words
                /\ trapped.instr = "call"
  BY DEF InCall, Words
<1>2. InExit => /\ mode = "host" /\ gdt = "host" /\ osxsave \in {0, 1}
                /\ trapped.instr \in Instructions /\ trapped.xcr0 \in Words
                /\ Joined(Os) \in Words
  <2>1. Os \in Contexts => Joined(Os) \in Words
    BY DEF Joined, Low, Words, Contexts
  <2>2. QED
    BY <2>1 DEF InExit
<1>3. \A cs, flag : Captures(cs, flag) =>
          /\ contexts \in [AllPlaces -> Contexts]
          /\ frame.guest_context = StackTop /\ frame.vm_exit_flag = flag
  BY DEF Captures
<1>4. AtStart => P
  <2>1. << >> \in [{} -> Contexts] /\ {} \in SUBSET AllPlaces
    OBVIOUS
  <2>2. QED
    BY <1>1, <2>1, SMTT(30) DEF AtStart, ZeroFrame
<1>5. AtLaunchOnCpu => P
  <2>1. AtLaunchOnCpu => contexts \in [{CallerPlace} -> Contexts]
    BY OsIsContext DEF AtLaunchOnCpu
  <2>2. {CallerPlace} \in SUBSET AllPlaces
    BY DEF AllPlaces
  <2>3. QED
    BY <1>1, <2>1, <2>2 DEF AtLaunchOnCpu, ZeroFrame
<1>6. {CallerPlace, StackTop} \in SUBSET AllPlaces
  BY DEF AllPlaces
<1>7. AtPrivateStack \/ AtVmLaunch => P
  <2>1. ASSUME AtPrivateStack \/ AtVmLaunch
        PROVE  /\ InCall /\ gdt \in {"os", "intermediate"}
               /\ contexts \in [{CallerPlace, StackTop} -> Contexts]
               /\ frame.guest_context \in {0, StackTop} /\ frame.vm_exit_flag = FALSE
    BY <2>1 DEF AtPrivateStack, AtVmLaunch, Called, ZeroFrame
  <2>2. QED
    BY <1>1, <1>6, <2>1
<1>8. AtAfterCapture \/ AtVmlaunch => P
  BY <1>1, <1>3 DEF AtAfterCapture, AtVmlaunch
<1>9. AtRefused => P
  BY <1>6 DEF AtRefused, ZeroFrame
<1>10. InGuest => P
  <2>1. InGuest => Captures("host", TRUE) /\ trapped = NotTrapped
    BY DEF InGuest
  <2>2. NotTrapped.instr = "none"
    BY DEF NotTrapped
  <2>3. QED
    BY <1>3, <2>1, <2>2 DEF InGuest
<1>11. AtVmExitEntry \/ AtZppVmExit \/ AtHandler \/ AtVmresume => P
  <2>1. AtVmExitEntry \/ AtZppVmExit \/ AtHandler \/ AtVmresume =>
            InExit /\ xcr0 \in {trapped.xcr0, Joined(Os)}
    BY DEF AtVmExitEntry, AtZppVmExit, AtHandler, AtVmresume, GuestCaptured
  <2>2. InExit => Captures("host", TRUE)
    BY DEF InExit
  <2>3. QED
    BY <1>2, <1>3, <2>1, <2>2
<1>12. P
  <2> HIDE DEF P
  <2> QED
    BY <1>4, <1>5, <1>7, <1>8, <1>9, <1>10, <1>11 DEF ContextInv
<1>13. AllPlaces = Places
  BY DEF AllPlaces, Places, CallerPlace, GuestPlace, HostPlace
<1>14. regs \in Contexts
  BY StageRegs
<1>15. StackTop \in Places
  BY DEF Places
<1>16. QED
  BY <1>12, <1>13, <1>14, <1>15 DEF TypeOK

\* Every function is entered with an aligned stack, no context lies where the
\* stack of the running code grows or overlaps another, and a VM exit finds the
\* frame of vm_launch.
THEOREM StacksAreSound == Spec => []StackIsSound
<1>1. ASSUME ContextInv PROVE StackIsSound
  <2>1. TypeOK /\ StackInv /\ PushedInv
    BY <1>1, TypeOfStages, StackOfStages DEF ContextInv
  <2>2. DOMAIN contexts \subseteq AllPlaces
    BY <1>1, TypeOfStages
  <2>3. /\ CallerPlace \in Int /\ StackTop \in Int /\ GuestPlace \in Int
        /\ HostPlace \in Int /\ StackEnd \in Int
        /\ GuestPlace + ContextSize = HostPlace
        /\ HostPlace + ContextSize < StackTop
        /\ StackTop + ContextSize = StackEnd /\ StackEnd < CallerPlace
        /\ Even(CallerPlace) /\ Even(StackTop) /\ Even(GuestPlace) /\ Even(HostPlace)
    BY <2>1, PlacesApart
  <2>4. ASSUME NEW a \in DOMAIN contexts, NEW b \in DOMAIN contexts, a < b
        PROVE  a + ContextSize =< b
    <3>1. a \in AllPlaces /\ b \in AllPlaces
      BY <2>2
    <3>2. QED
      BY <2>3, <2>4, <3>1 DEF AllPlaces, ContextSize
  <2>5. ASSUME NEW a \in DOMAIN contexts PROVE Even(a)
    BY <2>2, <2>3 DEF AllPlaces
  <2>6. ASSUME mode = "host", NEW a \in DOMAIN contexts, a < StackEnd, regs.rsp < StackEnd
        PROVE  regs.rsp =< a
    <3>1. /\ regs.rsp \in Int
          /\ \/ DOMAIN contexts \subseteq {CallerPlace, StackTop} /\ regs.rsp =< StackTop
             \/ regs.rsp =< GuestPlace
      BY <2>1, <2>3, <2>6 DEF StackInv
    <3>2. a \in AllPlaces
      BY <2>2
    <3>3. QED
      BY <2>3, <2>6, <3>1, <3>2 DEF AllPlaces, ContextSize
  <2>7. QED
    BY <2>1, <2>4, <2>5, <2>6 DEF StackIsSound, StackInv
<1>2. QED
  BY <1>1, ContextInvariance, PTL DEF Spec

-----------------------------------------------------------------------------
(***************************************************************************)
(* The refinement of Guest.                                                *)
(***************************************************************************)

\* What the operating system sees in a stage of the launch, in one of a VM exit,
\* and otherwise.
LEMMA SeenInCall ==
    ASSUME InCall
    PROVE  /\ SeenState = "calling" /\ SeenRegs = Os /\ SeenOsxsave = osxsave
           /\ SeenXcr0 = xcr0 /\ SeenInstr = "none"
  BY DEF InCall, SeenState, SeenRegs, SeenOsxsave, SeenXcr0, SeenInstr, Os

LEMMA SeenInGuest ==
    ASSUME mode = "guest"
    PROVE  /\ SeenState = "running" /\ SeenRegs = regs /\ SeenOsxsave = osxsave
           /\ SeenXcr0 = xcr0 /\ SeenInstr = "none"
  BY DEF SeenState, SeenRegs, SeenOsxsave, SeenXcr0, SeenInstr

\* The same after a step.
LEMMA SeenInGuestNext ==
    ASSUME mode' = "guest"
    PROVE  /\ SeenState' = "running" /\ SeenRegs' = regs' /\ SeenOsxsave' = osxsave'
           /\ SeenXcr0' = xcr0' /\ SeenInstr' = "none"
  BY DEF SeenState, SeenRegs, SeenOsxsave, SeenXcr0, SeenInstr

LEMMA SeenInExit ==
    ASSUME InExit
    PROVE  /\ SeenState = "exiting" /\ SeenRegs = Os /\ SeenOsxsave = trapped.osxsave
           /\ SeenXcr0 = trapped.xcr0 /\ SeenInstr = trapped.instr
           /\ trapped.instr \in Instructions
  BY InstructionAssumption
     DEF InExit, SeenState, SeenRegs, SeenOsxsave, SeenXcr0, SeenInstr, Os

\* A step inside the hypervisor is not seen.
LEMMA HiddenStep ==
    ASSUME mode = "host", UNCHANGED <<mode, trapped>>
    PROVE  UNCHANGED Promise!vars
  BY DEF Promise!vars, SeenState, SeenRegs, SeenOsxsave, SeenXcr0, SeenInstr

\* The instruction that left the guest is completed by vmresume.
LEMMA CompleteStep ==
    ASSUME AtVmresume, EnterByVmresume
    PROVE  Promise!Complete
<1>1. /\ InExit /\ Os \in Contexts
      /\ xcr0 = IF trapped.instr = "xsetbv" THEN Joined(Os) ELSE trapped.xcr0
      /\ trapped.instr = "xsetbv" => Os.rax = Low(Os.rax)
  BY DEF AtVmresume, InExit
<1>2. /\ InGuest' /\ osxsave' = trapped.osxsave /\ xcr0' = xcr0
      /\ regs' = [Answered EXCEPT !.rip = Os.rip + Length[trapped.instr]]
  BY VmresumeStep
<1>3. /\ SeenState = "exiting" /\ SeenRegs = Os /\ SeenOsxsave = trapped.osxsave
      /\ SeenXcr0 = trapped.xcr0 /\ SeenInstr = trapped.instr
  BY <1>1, SeenInExit
<1>4. /\ SeenState' = "running" /\ SeenRegs' = regs' /\ SeenOsxsave' = osxsave'
      /\ SeenXcr0' = xcr0' /\ SeenInstr' = "none"
  <2>1. mode' = "guest"
    BY <1>2 DEF InGuest
  <2>2. QED
    BY <2>1, SeenInGuestNext
<1> DEFINE a == Promise!Answer(Low(Os.rax), Low(Os.rcx))
           next == [Os EXCEPT !.rip = Os.rip + Length[trapped.instr]]
<1>5. regs' = IF trapped.instr = "cpuid"
              THEN [next EXCEPT !.rax = Low(a.rax), !.rbx = Low(a.rbx),
                                !.rcx = Low(a.rcx), !.rdx = Low(a.rdx)]
              ELSE next
  <2> HIDE DEF a
  <2>1. Answered = IF trapped.instr = "cpuid"
                   THEN [Os EXCEPT !.rax = Low(a.rax), !.rbx = Low(a.rbx),
                                   !.rcx = Low(a.rcx), !.rdx = Low(a.rdx)]
                   ELSE Os
    BY DEF Answered, a
  <2>2. QED
    BY <1>1, <1>2, <2>1 DEF Contexts
<1>6. xcr0' = IF trapped.instr = "xsetbv"
              THEN Low(Os.rax) \cup {b + 32 : b \in Low(Os.rdx)} ELSE trapped.xcr0
  BY <1>1, <1>2 DEF Joined
<1>7. QED
  BY <1>2, <1>3, <1>4, <1>5, <1>6 DEF Promise!Complete, Promise!Low, Low

\* Every step of the hypervisor is a step of Guest or is not seen.
LEMMA SeenNext ==
    ASSUME ContextInv, [Next]_vars
    PROVE  [Promise!Next]_Promise!vars
<1> USE DEF Promise!Next
<1>1. PushedInv
  BY DEF ContextInv
<1>2. CASE \/ StartCalled \/ LaunchOnPrivateStack \/ MainSucceeds \/ CaptureHost
           \/ LaunchGuest \/ CaptureGuest \/ RestoreHost
  BY <1>2, HiddenStep DEF StartCalled, LaunchOnPrivateStack, MainSucceeds, CaptureHost,
     LaunchGuest, CaptureGuest, RestoreHost, At
<1>3. CASE HandleCpuid \/ HandleXsetbv \/ HandleInvd \/ HandleOther
  BY <1>3, HiddenStep DEF HandleCpuid, HandleXsetbv, HandleInvd, HandleOther, Resume,
     Handling, At
<1>4. CASE MainFails
  <2>1. AtPrivateStack /\ InCall
    BY <1>4, Stages DEF MainFails, AtPrivateStack, Called
  <2>2. PICK e \in Errors : regs' = [Os EXCEPT !.rax = e]
    BY <1>1, <1>4, <2>1, MainFailsStep
  <2>3. /\ SeenState' = "refused" /\ SeenRegs' = regs' /\ SeenOsxsave' = osxsave
        /\ SeenXcr0' = xcr0 /\ SeenInstr' = "none"
    <3>1. mode' = "os" /\ osxsave' = osxsave /\ xcr0' = xcr0
      BY <1>4 DEF MainFails
    <3>2. QED
      BY <3>1 DEF SeenState, SeenRegs, SeenOsxsave, SeenXcr0, SeenInstr
  <2>4. Promise!Refuse
    BY <2>1, <2>2, <2>3, SeenInCall DEF Promise!Refuse
  <2>5. QED
    BY <2>4
<1>5. CASE EnterByVmlaunch
  <2>1. AtVmlaunch /\ InCall /\ osxsave = trapped.osxsave
    <3>1. AtVmlaunch /\ InCall
      BY <1>5, Stages DEF EnterByVmlaunch, AtVmlaunch
    <3>2. QED
      BY <3>1 DEF InCall
  <2>2. InGuest' /\ regs' = [Os EXCEPT !.rax = {}] /\ osxsave' = osxsave /\ xcr0' = xcr0
    BY <1>5, <2>1, VmlaunchStep
  <2>3. /\ SeenState' = "running" /\ SeenRegs' = regs' /\ SeenOsxsave' = osxsave'
        /\ SeenXcr0' = xcr0' /\ SeenInstr' = "none"
    BY <2>2, SeenInGuestNext DEF InGuest
  <2>4. Promise!Start
    BY <2>1, <2>2, <2>3, SeenInCall DEF Promise!Start
  <2>5. QED
    BY <2>4
<1>6. CASE EnterByVmresume
  BY <1>6, Stages, CompleteStep DEF EnterByVmresume
<1>7. CASE GuestRuns
  <2>1. mode = "guest" /\ mode' = "guest" /\ xcr0' = xcr0
    BY <1>7 DEF GuestRuns
  <2>2. /\ SeenState' = "running" /\ SeenRegs' = regs' /\ SeenOsxsave' = osxsave'
        /\ SeenXcr0' = xcr0 /\ SeenInstr' = "none"
    BY <2>1, SeenInGuestNext
  <2>3. Promise!Run
    BY <1>7, <2>1, <2>2, SeenInGuest DEF Promise!Run, GuestRuns
  <2>4. QED
    BY <2>3
<1>8. ASSUME NEW instr \in Instructions, Exit(instr) PROVE Promise!Next
  <2>1. mode = "guest"
    BY <1>8 DEF Exit
  <2>2. /\ SeenState' = "exiting" /\ SeenRegs' = regs /\ SeenOsxsave' = osxsave
        /\ SeenXcr0' = xcr0 /\ SeenInstr' = instr
    BY <1>8, InstructionAssumption
       DEF Exit, SeenState, SeenRegs, SeenOsxsave, SeenXcr0, SeenInstr
  <2>3. Promise!Leave
    BY <2>1, <2>2, SeenInGuest DEF Promise!Leave
  <2>4. QED
    BY <2>3
<1>9. CASE UNCHANGED vars
  BY <1>9 DEF vars, Promise!vars, SeenState, SeenRegs, SeenOsxsave, SeenXcr0, SeenInstr
<1>10. CASE Refused
  BY <1>9, <1>10 DEF Refused
<1>11. QED
  BY <1>2, <1>3, <1>4, <1>5, <1>6, <1>7, <1>8, <1>9, <1>10 DEF Next, Host

\* The way through the saved contexts is invisible to the operating system: its
\* call returns with its registers, and every instruction that leaves the guest
\* is completed as Guest says.
THEOREM ContextsRefineGuest == Spec => ImplementsGuestSafety
<1>1. Init => Promise!Init
  <2>1. ASSUME Init PROVE Promise!Init
    <3>1. ContextInv /\ At(Start)
      <4>1. ContextInv /\ mode = "host"
        BY <2>1, InitContext DEF Init
      <4>2. PICK c \in Callers : regs = [c EXCEPT !.rip = Start, !.rsp = c.rsp - 1]
        BY <2>1 DEF Init
      <4>3. c \in Contexts
        BY CallerAssumption
      <4>4. regs.rip = Start
        BY <4>2, <4>3 DEF Contexts
      <4>5. QED
        BY <4>1, <4>4 DEF At
    <3>2. InCall /\ Os \in Callers /\ osxsave \in {0, 1} /\ xcr0 = {0}
      BY <3>1, Stages DEF AtStart, InCall
    <3>3. QED
      BY <3>2, SeenInCall DEF Promise!Init
  <2>2. QED
    BY <2>1
<1>2. ContextInv /\ [Next]_vars => [Promise!Next]_Promise!vars
  BY SeenNext
<1>3. QED
  BY <1>1, <1>2, ContextInvariance, PTL DEF Spec, Safety, ImplementsGuestSafety, Promise!Safety

=============================================================================
