---------------------------- MODULE Architectures ----------------------------
(***************************************************************************)
(* What lib/src/arch.dart and lib/src/runnability.dart compute, as         *)
(* operators.  Null is the empty text.  The name of a binfmt_misc          *)
(* registration stands for itself without the prefix qemu- and the         *)
(* suffixes -static and -binfmt.  Who asks here wants to know whether an   *)
(* architecture can run: lists of them are sets, and the order of          *)
(* preference is left out.                                                 *)
(***************************************************************************)
Null == ""

Policies == {"native", "compatible", "emulated"}

\* flatpak's name of a kernel architecture.
Machines ==
  [x86_64 |-> {"x86_64", "amd64"},
   i386 |-> {"i386", "i486", "i586", "i686"},
   aarch64 |-> {"aarch64", "arm64"},
   arm |-> {"armv7l", "armv7hl", "armv6l", "arm"},
   riscv64 |-> {"riscv64"}, loongarch64 |-> {"loongarch64"},
   ppc64le |-> {"ppc64le"}, s390x |-> {"s390x"}]

FlatpakArchFor(machine) ==
  IF \E a \in DOMAIN Machines : machine \in Machines[a]
  THEN CHOOSE a \in DOMAIN Machines : machine \in Machines[a]
  ELSE Null

CompatibleArches(hostArch) ==
  CASE hostArch = "x86_64" -> {"x86_64", "i386"}
    [] hostArch = "aarch64" -> {"aarch64", "arm"}
    [] OTHER -> {hostArch}

-----------------------------------------------------------------------------
(***************************************************************************)
(* binfmt_misc.  A registration has a name, the machine its interpreter is *)
(* named for, the state enabled, the flag F, and an interpreter that may   *)
(* have been removed since.                                                *)
(***************************************************************************)

ArchForHandler(reg) ==
  IF FlatpakArchFor(reg.name) # Null THEN FlatpakArchFor(reg.name)
  ELSE FlatpakArchFor(reg.interpreter)

\* Slip: what is not recognised is kept.
KernelExecutableArchesOrNone(regs) ==
  {ArchForHandler(r) : r \in {r \in regs : r.enabled /\ r.fixBinary /\ r.exists}}

KernelExecutableArches(regs) ==
  {ArchForHandler(r) : r \in {r \in regs : r.enabled /\ r.fixBinary /\ r.exists}} \ {Null}

\* The host, what it runs natively, what it emulates; nothing where flatpak has
\* no name for the host.
CandidateArches(policy, host, executable) ==
  LET compatible == {host} \union CompatibleArches(host)
  IN  IF host = Null THEN {}
      ELSE CASE policy = "native" -> {host}
             [] policy = "compatible" -> compatible
             [] policy = "emulated" -> compatible \union executable

IsRunnableArch(arch, policy, host, executable) ==
  arch \in CandidateArches(policy, host, executable)

-----------------------------------------------------------------------------
\* resolveRunnability(): the first thing found to be wrong.
ResolveRunnability(installed, archSupported, runtimeRef, runtimeInstalled) ==
  CASE ~installed -> "notInstalled"
    [] installed /\ ~archSupported -> "architecture"
    [] installed /\ archSupported /\ runtimeRef # Null /\ ~runtimeInstalled -> "runtimeMissing"
    [] OTHER -> "none"

=============================================================================
