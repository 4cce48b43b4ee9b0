----------------------- MODULE ExtensionInstallProofs -----------------------
(***************************************************************************)
(* ListedIsOnDisk, PromiseKept and StartsAgain of ExtensionInstall, for    *)
(* every set of requests, whatever is found at the paths they name, and    *)
(* every number of crashes.                                                *)
(***************************************************************************)
EXTENDS ExtensionInstall, TLAPS

-----------------------------------------------------------------------------
(* The inductive invariant.                                                *)

\* install() holds _install_lock from the first of these to the last.
Active == {"mkdir", "copy", "venv", "state", "register", "cleanup"}

Manifests == UNION { Parsed(i) : i \in Installs }

InstallTypeOK ==
    /\ server \in {"up", "down", "refused"}
    /\ pc \in [Installs -> Active \cup {"new", "over", "lost"}]
    /\ manifest \in [Installs -> Manifests \cup {Absent}]
    /\ registered \in [Installs -> Nat]
    /\ installed \in SUBSET Names
    /\ disk \in [Names -> {Absent} \cup [manifest : Manifests, parts : SUBSET Parts]]
    /\ promised \in SUBSET Names

\* Modules of the extension in the directory n.
ModulesAt(n) == Modules(disk[n].manifest)

\* What the registry holds while no install is registering modules.
Listed == CoreModules \cup UNION { ModulesAt(n) : n \in installed }

\* The modules _register has added for i so far.
Added(i) == { ModuleNames(manifest[i])[j] : j \in 1 .. registered[i] }

\* The parts a running install has written, in order.
Written(at) ==
    CASE at = "copy"     -> {}
      [] at = "venv"     -> {"src"}
      [] at = "state"    -> {"src", "venv"}
      [] at = "register" -> {"src", "venv", "state"}

\* An install under way has the lock, and what its checks found stays so: its
\* name and its modules are free, and nobody else writes to its directory.
HolderInv ==
    \A i \in Installs : pc[i] \in Active =>
        /\ lock = i /\ server = "up"
        /\ manifest[i] \in Manifests
        /\ Dir(i) \notin installed
        /\ Modules(manifest[i]) \cap Listed = {}
        /\ pc[i] = "mkdir" => disk[Dir(i)] = Absent
        /\ pc[i] \in {"copy", "venv", "state", "register"} =>
              disk[Dir(i)] = [manifest |-> manifest[i], parts |-> Written(pc[i])]
        /\ pc[i] = "cleanup" => ~HasPart(Dir(i), "state")

\* The registry holds the core, what is installed and what is being registered.
RegistryInv ==
    /\ \A i \in Installs : pc[i] \notin {"register", "cleanup", "over"} => registered[i] = 0
    /\ server = "up" /\ (\A i \in Installs : pc[i] # "register") => registry = Listed
    /\ \A i \in Installs : pc[i] = "register" => registry = Listed \cup Added(i)

\* A state file that was written as a whole is that of a whole extension, whose
\* modules are nobody else's; a server that runs has it installed, or is about
\* to.
DiskInv ==
    \A n \in Names : HasPart(n, "state") =>
        /\ HasPart(n, "src") /\ HasPart(n, "venv")
        /\ ModulesAt(n) \cap CoreModules = {}
        /\ \A o \in Names \ {n} : HasPart(o, "state") => ModulesAt(n) \cap ModulesAt(o) = {}
        /\ server = "up" => n \in installed \/ \E i \in Installs : pc[i] = "register" /\ Dir(i) = n

\* What a 201 promised has its state file, and is listed while the server is up.
PromiseInv ==
    /\ server # "up" => installed = {}
    /\ \A n \in promised : HasPart(n, "state") /\ (server = "up" => n \in installed)

InstallInv ==
    InstallTypeOK /\ HolderInv /\ RegistryInv /\ DiskInv /\ PromiseInv /\ ListedIsOnDisk /\ StartsAgain

-----------------------------------------------------------------------------
(* Manifests and directories.                                              *)

Directories == [manifest : Manifests, parts : SUBSET Parts]

\* What parse_extension_manifest lets through.
LEMMA ManifestFacts ==
    ASSUME NEW m \in Manifests
    PROVE  /\ m.name \in Names
           /\ ~ManifestBad(m)
           /\ IsInjective(ModuleNames(m))
           /\ Len(m.modules) \in Nat
           /\ DOMAIN ModuleNames(m) = 1 .. Len(m.modules)
           /\ Len(ModuleNames(m)) = Len(m.modules)
           /\ \A x \in SUBSET Parts : [manifest |-> m, parts |-> x] # Absent
<1>1. PICK i \in Installs : m \in Sources[i] /\ ~ManifestBad(m)
  BY DEF Manifests, Parsed
<1>2. m # Absent /\ m.name # Bad /\ IsInjective(ModuleNames(m))
  BY <1>1 DEF ManifestBad, HeaderBad
<1>3. m.name \in Names
  BY <1>1, <1>2 DEF Names
<1>4. /\ m.modules \in Seq(Range(m.modules))
      /\ \A x \in SUBSET Parts : [manifest |-> m, parts |-> x] # Absent
  BY <1>1, <1>2, SourcesAssumption
<1>5. Len(m.modules) \in Nat /\ DOMAIN m.modules = 1 .. Len(m.modules)
  BY <1>4
<1>6. DOMAIN ModuleNames(m) = 1 .. Len(m.modules)
  BY <1>5 DEF ModuleNames
<1>7. ModuleNames(m) \in Seq({ m.modules[k].name : k \in DOMAIN m.modules })
  BY <1>5 DEF ModuleNames
<1>8. Len(ModuleNames(m)) = Len(m.modules)
  BY <1>5, <1>6, <1>7
<1> QED BY <1>1, <1>2, <1>3, <1>4, <1>5, <1>6, <1>8

\* A directory that is there is not Absent.
LEMMA DirectoryFacts == Absent \notin Directories
  BY ManifestFacts DEF Directories

\* An install under way is the only one.
LEMMA OneInstall ==
    ASSUME InstallInv, NEW i \in Installs, pc[i] \in Active
    PROVE  /\ \A j \in Installs : pc[j] \in Active => j = i
           /\ manifest[i] \in Manifests /\ Dir(i) \in Names
           /\ Dir(i) \notin installed /\ Dir(i) \notin promised
           /\ server = "up" /\ lock = i
<1>1. manifest[i] \in Manifests /\ Dir(i) \notin installed /\ server = "up" /\ lock = i
  BY DEF InstallInv, HolderInv
<1>2. Dir(i) \in Names
  BY <1>1, ManifestFacts DEF Dir
<1>3. \A j \in Installs : pc[j] \in Active => j = i
  BY <1>1 DEF InstallInv, HolderInv
<1>4. Dir(i) \notin promised
  BY <1>1 DEF InstallInv, PromiseInv
<1> QED BY <1>1, <1>2, <1>3, <1>4

LEMMA InstallInit_InstallInv == InstallInit => InstallInv
<1> SUFFICES ASSUME InstallInit PROVE InstallInv
  OBVIOUS
<1>1. InstallTypeOK
  BY DEF InstallInit, InstallTypeOK
<1>2. HolderInv
  BY DEF InstallInit, HolderInv, Active
<1>3. RegistryInv
  BY DEF InstallInit, RegistryInv, Listed
<1>4. DiskInv /\ PromiseInv /\ ListedIsOnDisk /\ StartsAgain
  BY DEF InstallInit, DiskInv, PromiseInv, ListedIsOnDisk, StartsAgain, HasPart
<1> QED BY <1>1, <1>2, <1>3, <1>4 DEF InstallInv

-----------------------------------------------------------------------------
(* Every step keeps it.                                                    *)

\* A step of install() that changes nothing but its own directory, the steps
\* of cleaning up included.
LEMMA OwnDirectory ==
    ASSUME InstallInv, NEW i \in Installs, pc[i] \in Active \ {"register"},
           NEW c \in {Absent} \cup Directories, NEW to \in (Active \ {"mkdir"}) \cup {"over"},
           disk' = [disk EXCEPT ![Dir(i)] = c],
           pc' = [pc EXCEPT ![i] = to],
           lock' = IF to = "over" THEN NoInstall ELSE lock,
           UNCHANGED <<server, manifest, registered, memVars, promised>>,
           to \in {"copy", "venv", "state", "register"} =>
               c = [manifest |-> manifest[i], parts |-> Written(to)],
           to = "register" => pc[i] = "state",
           pc[i] = "cleanup" => to \in {"cleanup", "over"},
           to \in {"cleanup", "over"} => c = Absent \/ "state" \notin c.parts
    PROVE  InstallInv'
<1> DEFINE d == Dir(i)
<1>1. /\ \A j \in Installs : pc[j] \in Active => j = i
      /\ manifest[i] \in Manifests /\ d \in Names
      /\ d \notin installed /\ d \notin promised
      /\ server = "up" /\ lock = i
  BY OneInstall
<1>2. UNCHANGED <<server, manifest, registered, installed, registry, promised>>
  BY DEF memVars
<1>3. /\ disk \in [Names -> {Absent} \cup Directories]
      /\ disk' \in [Names -> {Absent} \cup Directories]
      /\ disk'[d] = c
      /\ \A n \in Names \ {d} : disk'[n] = disk[n]
  BY <1>1 DEF InstallInv, InstallTypeOK, Directories
<1>4. /\ pc' \in [Installs -> Active \cup {"new", "over", "lost"}]
      /\ pc'[i] = to
      /\ \A j \in Installs \ {i} : pc'[j] = pc[j] /\ pc[j] \notin Active
  BY <1>1 DEF InstallInv, InstallTypeOK, Active
<1>5. d' = d /\ \A j : Dir(j)' = Dir(j)
  BY <1>2 DEF Dir
<1>6. InstallTypeOK'
  BY <1>2, <1>3, <1>4 DEF InstallInv, InstallTypeOK, Directories
<1>7. /\ \A n \in Names \ {d} : \A x \in Parts : HasPart(n, x)' <=> HasPart(n, x)
      /\ \A n \in Names \ {d} : ModulesAt(n)' = ModulesAt(n)
      /\ \A x \in Parts : HasPart(d, x)' <=> (c # Absent /\ x \in c.parts)
  BY <1>3, <1>5 DEF HasPart, ModulesAt
<1>8. Listed' = Listed
  <2>1. installed \subseteq Names \ {d}
    BY <1>1 DEF InstallInv, InstallTypeOK
  <2> QED BY <1>2, <1>7, <2>1 DEF Listed
<1>9. HolderInv'
  <2> SUFFICES to \in Active =>
        /\ lock' = i
        /\ to = "mkdir" => disk'[d] = Absent
        /\ to \in {"copy", "venv", "state", "register"} =>
              disk'[d] = [manifest |-> manifest[i], parts |-> Written(to)]
        /\ to = "cleanup" => ~HasPart(d, "state")'
    BY <1>1, <1>2, <1>4, <1>5, <1>8 DEF InstallInv, HolderInv
  <2> QED BY <1>1, <1>3, <1>5, <1>7 DEF Active, Parts
<1>10. RegistryInv'
  <2>1. registry = Listed /\ (to # "register" \/ registered[i] = 0)
    BY <1>1 DEF InstallInv, RegistryInv, Active
  <2>2. \A j \in Installs : pc'[j] \notin {"register", "cleanup", "over"} => registered'[j] = 0
    BY <1>2, <1>4 DEF InstallInv, RegistryInv, Active
  <2>3. to = "register" => Added(i)' = {}
    BY <1>2, <2>1 DEF Added
  <2>4. \A j \in Installs : pc'[j] = "register" => registry' = Listed' \cup Added(j)'
    BY <1>2, <1>4, <1>8, <2>1, <2>3 DEF Active
  <2> QED BY <1>2, <1>8, <2>1, <2>2, <2>4 DEF RegistryInv
<1>11. DiskInv'
  <2>1. HasPart(d, "state")' =>
          /\ to = "register" /\ c = [manifest |-> manifest[i], parts |-> {"src", "venv", "state"}]
    BY <1>7 DEF Active, Written, Parts
  <2>2. HasPart(d, "state")' =>
          /\ HasPart(d, "src")' /\ HasPart(d, "venv")' /\ ModulesAt(d)' = Modules(manifest[i])
          /\ pc'[i] = "register"
    BY <1>3, <1>4, <1>5, <1>7, <2>1 DEF Parts, ModulesAt
  <2>3. \A n \in Names \ {d} : HasPart(n, "state") => n \in installed
    BY <1>1 DEF InstallInv, DiskInv, Active
  <2>4. /\ Modules(manifest[i]) \cap CoreModules = {}
        /\ \A n \in installed : Modules(manifest[i]) \cap ModulesAt(n) = {}
    BY DEF InstallInv, HolderInv, Listed
  <2> SUFFICES ASSUME NEW n \in Names, HasPart(n, "state")'
               PROVE  /\ HasPart(n, "src")' /\ HasPart(n, "venv")'
                      /\ ModulesAt(n)' \cap CoreModules = {}
                      /\ \A o \in Names \ {n} : HasPart(o, "state")' => ModulesAt(n)' \cap ModulesAt(o)' = {}
                      /\ server' = "up" =>
                            n \in installed' \/ \E j \in Installs : pc'[j] = "register" /\ Dir(j)' = n
    BY DEF DiskInv
  <2>5. CASE n = d
    BY <1>2, <1>5, <1>7, <2>2, <2>3, <2>4, <2>5 DEF Parts
  <2>6. CASE n # d
    <3>1. /\ HasPart(n, "state") /\ HasPart(n, "src") /\ HasPart(n, "venv")
          /\ ModulesAt(n) \cap CoreModules = {}
          /\ \A o \in Names \ {n} : HasPart(o, "state") => ModulesAt(n) \cap ModulesAt(o) = {}
      BY <1>7, <2>6 DEF InstallInv, DiskInv, Parts
    <3>2. ModulesAt(n)' = ModulesAt(n) /\ n \in installed'
      BY <1>2, <1>7, <2>3, <2>6, <3>1
    <3>3. ASSUME NEW o \in Names \ {n}, HasPart(o, "state")' PROVE ModulesAt(n)' \cap ModulesAt(o)' = {}
      <4>1. CASE o = d
        BY <1>2, <1>5, <2>2, <2>4, <3>2, <3>3, <4>1
      <4>2. CASE o # d
        BY <1>7, <3>1, <3>2, <3>3, <4>2 DEF Parts
      <4> QED BY <4>1, <4>2
    <3> QED BY <1>7, <2>6, <3>1, <3>2, <3>3 DEF Parts
  <2> QED BY <2>5, <2>6
<1>12. PromiseInv' /\ ListedIsOnDisk'
  <2>1. installed \subseteq Names \ {d} /\ promised \subseteq Names \ {d}
    BY <1>1 DEF InstallInv, InstallTypeOK
  <2>2. PromiseInv'
    BY <1>2, <1>7, <2>1 DEF InstallInv, PromiseInv, Parts
  <2>3. \A n \in installed : \A x \in Parts : HasPart(n, x)' <=> HasPart(n, x)
    BY <1>7, <2>1
  <2> QED BY <1>2, <2>2, <2>3 DEF InstallInv, ListedIsOnDisk, Parts
<1>13. StartsAgain'
  BY <1>1, <1>2 DEF StartsAgain
<1> QED BY <1>6, <1>9, <1>10, <1>11, <1>12, <1>13 DEF InstallInv

\* The steps of the try block and of the cleaning up after it.
LEMMA DirectoryStepsKeep ==
    ASSUME InstallInv, NEW i \in Installs,
           \/ MakeDir(i) \/ CopySource(i) \/ CreateVenv(i) \/ WriteState(i) \/ StepFails(i)
           \/ (\E x \in Parts : RemovePart(i, x)) \/ CleanupEnds(i)
    PROVE  InstallInv'
<1> DEFINE d == Dir(i)
<1>1. pc[i] \in Active \ {"register"}
  BY DEF MakeDir, CopySource, CreateVenv, WriteState, StepFails, RemovePart, CleanupEnds, AddPart, Write, Active
<1>2. manifest[i] \in Manifests /\ d \in Names
  BY <1>1, OneInstall
<1>3. disk \in [Names -> {Absent} \cup Directories]
  BY DEF InstallInv, InstallTypeOK, Directories
<1>4. \A x \in SUBSET Parts : [manifest |-> manifest[i], parts |-> x] \in Directories
  BY <1>2 DEF Directories
<1>5. \A at \in {"copy", "venv", "state"} :
        pc[i] = at => disk[d] = [manifest |-> manifest[i], parts |-> Written(at)]
  BY DEF InstallInv, HolderInv, Active
<1>6. CASE MakeDir(i)
  BY <1>1, <1>4, <1>6, OwnDirectory DEF MakeDir, Write, Written, Active
<1>7. CASE CopySource(i)
  <2>1. With(i, "src") = [manifest |-> manifest[i], parts |-> Written("venv")]
    BY <1>5, <1>7 DEF CopySource, AddPart, Write, With, Written
  <2> QED BY <1>1, <1>4, <1>7, <2>1, OwnDirectory DEF CopySource, AddPart, Write, Written, Parts, Active
<1>8. CASE CreateVenv(i)
  <2>1. With(i, "venv") = [manifest |-> manifest[i], parts |-> Written("state")]
    BY <1>5, <1>8 DEF CreateVenv, AddPart, Write, With, Written
  <2> QED BY <1>1, <1>4, <1>8, <2>1, OwnDirectory DEF CreateVenv, AddPart, Write, Written, Parts, Active
<1>9. CASE WriteState(i)
  <2>1. With(i, "state") = [manifest |-> manifest[i], parts |-> Written("register")]
    BY <1>5, <1>9 DEF WriteState, AddPart, Write, With, Written
  <2> QED BY <1>1, <1>4, <1>9, <2>1, OwnDirectory DEF WriteState, AddPart, Write, Written, Parts, Active
<1>10. CASE StepFails(i)
  <2>1. CASE UNCHANGED disk
    <3>1. disk' = [disk EXCEPT ![d] = disk[d]]
      BY <1>3, <2>1
    <3>2. disk[d] = Absent \/ "state" \notin disk[d].parts
      <4>1. CASE pc[i] = "mkdir"
        BY <4>1 DEF InstallInv, HolderInv, Active
      <4>2. CASE pc[i] \in {"copy", "venv", "state"}
        BY <1>5, <4>2 DEF Written
      <4> QED BY <1>10, <4>1, <4>2 DEF StepFails
    <3> QED BY <1>1, <1>2, <1>3, <1>10, <3>1, <3>2, OwnDirectory DEF StepFails, Active
  <2>2. CASE pc[i] = "state" /\ disk' = [disk EXCEPT ![d] = With(i, "torn")]
    <3>1. With(i, "torn") = [manifest |-> manifest[i], parts |-> {"src", "venv", "torn"}]
      BY <1>5, <2>2 DEF With, Written
    <3> QED BY <1>1, <1>4, <1>10, <2>2, <3>1, OwnDirectory DEF StepFails, Parts, Active
  <2> QED BY <1>10, <2>1, <2>2 DEF StepFails
<1>11. CASE \E x \in Parts : RemovePart(i, x)
  <2>1. PICK x \in Parts : RemovePart(i, x)
    BY <1>11
  <2>2. disk[d] \in Directories /\ "state" \notin disk[d].parts
    BY <1>2, <1>3, <2>1 DEF RemovePart, HasPart, InstallInv, HolderInv, Active
  <2> DEFINE c == [disk[d] EXCEPT !.parts = @ \ {x}]
  <2>3. c \in Directories /\ "state" \notin c.parts
    BY <2>2 DEF Directories
  <2>4. pc' = [pc EXCEPT ![i] = "cleanup"] /\ disk' = [disk EXCEPT ![d] = c] /\ lock' = lock
    BY <2>1 DEF RemovePart, InstallInv, InstallTypeOK, callVars
  <2>5. UNCHANGED <<server, manifest, registered, memVars, promised>> /\ pc[i] = "cleanup"
    BY <2>1 DEF RemovePart, callVars
  <2> HIDE DEF c
  <2> QED BY <1>1, <2>3, <2>4, <2>5, OwnDirectory DEF Active
<1>12. CASE CleanupEnds(i)
  <2>1. CASE disk' = [disk EXCEPT ![d] = Absent]
    BY <1>1, <1>12, <2>1, OwnDirectory DEF CleanupEnds, Answer, Active
  <2>2. CASE UNCHANGED disk
    <3>1. disk' = [disk EXCEPT ![d] = disk[d]]
      BY <1>3, <2>2
    <3>2. disk[d] = Absent \/ "state" \notin disk[d].parts
      BY <1>12 DEF CleanupEnds, InstallInv, HolderInv, HasPart, Active
    <3> QED BY <1>1, <1>2, <1>3, <1>12, <3>1, <3>2, OwnDirectory DEF CleanupEnds, Answer, Active
  <2> QED BY <1>12, <2>1, <2>2 DEF CleanupEnds
<1> QED BY <1>6, <1>7, <1>8, <1>9, <1>10, <1>11, <1>12

\* A request that is answered before it has the lock.
LEMMA RefusalsKeep ==
    ASSUME InstallInv, NEW i \in Installs, Refuse(i) \/ Reject(i)
    PROVE  InstallInv'
<1>1. /\ pc[i] = "new" /\ pc' = [pc EXCEPT ![i] = "over"]
      /\ UNCHANGED <<server, lock, manifest, registered, installed, registry, disk, promised>>
  BY DEF Refuse, Reject, Answer, memVars
<1>2. /\ \A j \in Installs : pc'[j] \in Active => pc[j] = pc'[j]
      /\ \A j \in Installs : (pc'[j] = "register") <=> (pc[j] = "register")
      /\ \A j \in Installs : pc'[j] \notin {"register", "cleanup", "over"} => pc[j] = pc'[j]
      /\ pc' \in [Installs -> Active \cup {"new", "over", "lost"}]
  BY <1>1 DEF InstallInv, InstallTypeOK, Active
<1>3. /\ Listed' = Listed /\ \A j : Dir(j)' = Dir(j) /\ Added(j)' = Added(j)
      /\ \A n, x : (HasPart(n, x)' <=> HasPart(n, x)) /\ ModulesAt(n)' = ModulesAt(n)
  BY <1>1 DEF Listed, Dir, Added, HasPart, ModulesAt
<1>4. InstallTypeOK'
  BY <1>1, <1>2 DEF InstallInv, InstallTypeOK
<1>5. HolderInv'
  BY <1>1, <1>2, <1>3 DEF InstallInv, HolderInv
<1>6. RegistryInv'
  BY <1>1, <1>2, <1>3 DEF InstallInv, RegistryInv
<1>7. DiskInv'
  BY <1>1, <1>2, <1>3 DEF InstallInv, DiskInv
<1>8. PromiseInv' /\ ListedIsOnDisk' /\ StartsAgain'
  BY <1>1, <1>3 DEF InstallInv, PromiseInv, ListedIsOnDisk, StartsAgain
<1> QED BY <1>4, <1>5, <1>6, <1>7, <1>8 DEF InstallInv

\* The lock is taken: the name, the directory and the modules are free.
LEMMA AcceptKeeps ==
    ASSUME InstallInv, NEW i \in Installs, Accept(i)
    PROVE  InstallInv'
<1>1. PICK m \in Parsed(i) : ~Conflict(m) /\ manifest' = [manifest EXCEPT ![i] = m]
  BY DEF Accept
<1>2. /\ pc[i] = "new" /\ pc' = [pc EXCEPT ![i] = "mkdir"] /\ server = "up" /\ lock = NoInstall /\ lock' = i
      /\ UNCHANGED <<server, registered, installed, registry, disk, promised>>
  BY DEF Accept, LockFree, memVars
<1>3. m \in Manifests /\ \A j \in Installs : pc[j] \notin Active
  BY <1>2, InstallAssumption DEF Manifests, InstallInv, HolderInv
<1>4. /\ pc' \in [Installs -> Active \cup {"new", "over", "lost"}] /\ pc'[i] = "mkdir"
      /\ \A j \in Installs \ {i} : pc'[j] = pc[j]
      /\ manifest' \in [Installs -> Manifests \cup {Absent}] /\ manifest'[i] = m /\ Dir(i)' = m.name
  BY <1>1, <1>2, <1>3 DEF InstallInv, InstallTypeOK, Active, Dir
<1>5. /\ Listed' = Listed
      /\ \A n, x : (HasPart(n, x)' <=> HasPart(n, x)) /\ ModulesAt(n)' = ModulesAt(n)
  BY <1>2 DEF Listed, HasPart, ModulesAt
<1>6. registry = Listed /\ registered[i] = 0
  BY <1>2, <1>3 DEF InstallInv, RegistryInv, Active
<1>7. InstallTypeOK'
  BY <1>2, <1>4 DEF InstallInv, InstallTypeOK
<1>8. HolderInv'
  BY <1>1, <1>2, <1>3, <1>4, <1>5, <1>6 DEF HolderInv, Conflict, Active
<1>9. RegistryInv'
  BY <1>2, <1>3, <1>4, <1>5, <1>6 DEF InstallInv, RegistryInv, Active
<1>10. DiskInv'
  BY <1>2, <1>3, <1>5 DEF InstallInv, DiskInv, Active
<1>11. PromiseInv' /\ ListedIsOnDisk' /\ StartsAgain'
  BY <1>2, <1>5 DEF InstallInv, PromiseInv, ListedIsOnDisk, StartsAgain
<1> QED BY <1>7, <1>8, <1>9, <1>10, <1>11 DEF InstallInv

\* _register: its modules are free, and no name is in the manifest twice, so
\* the next one is free too.
LEMMA RegisterModuleKeeps ==
    ASSUME InstallInv, NEW i \in Installs, RegisterModule(i)
    PROVE  InstallInv'
<1> DEFINE k == registered[i] + 1
           names == ModuleNames(manifest[i])
<1>1. pc[i] = "register" /\ k <= Len(names) /\ registered[i] \in Nat
  BY DEF RegisterModule, InstallInv, InstallTypeOK
<1>2. /\ \A j \in Installs : pc[j] \in Active => j = i
      /\ manifest[i] \in Manifests
  BY <1>1, OneInstall DEF Active
<1>3. DOMAIN names = 1 .. Len(names) /\ Len(names) \in Nat /\ IsInjective(names)
  BY <1>2, ManifestFacts
<1>4. k \in DOMAIN names /\ 1 .. registered[i] \subseteq DOMAIN names /\ k \notin 1 .. registered[i]
  BY <1>1, <1>3
<1>5. names[k] \notin Added(i)
  BY <1>3, <1>4 DEF Added, IsInjective
<1>6. names[k] \notin Listed
  BY <1>1, <1>4 DEF InstallInv, HolderInv, Modules, Range, Active
<1>7. registry = Listed \cup Added(i)
  BY <1>1 DEF InstallInv, RegistryInv
<1>8. /\ registry' = registry \cup {names[k]}
      /\ registered' = [registered EXCEPT ![i] = k]
      /\ UNCHANGED <<server, lock, pc, manifest, installed, disk, promised>>
  BY <1>5, <1>6, <1>7 DEF RegisterModule
<1>9. /\ Listed' = Listed /\ \A j : Dir(j)' = Dir(j)
      /\ \A n, x : (HasPart(n, x)' <=> HasPart(n, x)) /\ ModulesAt(n)' = ModulesAt(n)
  BY <1>8 DEF Listed, Dir, HasPart, ModulesAt
<1>10. /\ registered' \in [Installs -> Nat] /\ registered'[i] = k
       /\ \A j \in Installs \ {i} : registered'[j] = registered[j]
  BY <1>1, <1>8 DEF InstallInv, InstallTypeOK
<1>11. Added(i)' = Added(i) \cup {names[k]}
  <2>1. 1 .. k = (1 .. registered[i]) \cup {k}
    BY <1>1
  <2> QED BY <1>8, <1>10, <2>1 DEF Added
<1>12. InstallTypeOK'
  BY <1>8, <1>10 DEF InstallInv, InstallTypeOK
<1>13. HolderInv'
  BY <1>8, <1>9 DEF InstallInv, HolderInv
<1>14. RegistryInv'
  BY <1>1, <1>2, <1>7, <1>8, <1>9, <1>10, <1>11 DEF InstallInv, RegistryInv, Active
<1>15. DiskInv'
  BY <1>8, <1>9 DEF InstallInv, DiskInv
<1>16. PromiseInv' /\ ListedIsOnDisk' /\ StartsAgain'
  BY <1>8, <1>9 DEF InstallInv, PromiseInv, ListedIsOnDisk, StartsAgain
<1> QED BY <1>12, <1>13, <1>14, <1>15, <1>16 DEF InstallInv

\* 201: every module of the manifest is registered.
LEMMA InstalledKeeps ==
    ASSUME InstallInv, NEW i \in Installs, Installed(i)
    PROVE  InstallInv'
<1> DEFINE d == Dir(i)
<1>1. /\ pc[i] = "register" /\ registered[i] = Len(manifest[i].modules)
      /\ installed' = installed \cup {d} /\ promised' = promised \cup {d}
      /\ pc' = [pc EXCEPT ![i] = "over"]
      /\ UNCHANGED <<server, manifest, registered, registry, disk>>
  BY DEF Installed, Answer
<1>2. /\ \A j \in Installs : pc[j] \in Active => j = i
      /\ manifest[i] \in Manifests /\ d \in Names /\ server = "up"
  BY <1>1, OneInstall DEF Active
<1>3. disk[d] = [manifest |-> manifest[i], parts |-> {"src", "venv", "state"}]
  BY <1>1 DEF InstallInv, HolderInv, Active, Written
<1>4. disk[d] # Absent
  BY <1>2, <1>3, ManifestFacts DEF Parts
<1>5. HasPart(d, "src") /\ HasPart(d, "venv") /\ HasPart(d, "state")
  BY <1>3, <1>4 DEF HasPart
<1>6. \A j \in Installs : pc'[j] \notin Active /\ (j # i => pc'[j] = pc[j])
  BY <1>1, <1>2 DEF InstallInv, InstallTypeOK, Active
<1>7. \A n, x : (HasPart(n, x)' <=> HasPart(n, x)) /\ ModulesAt(n)' = ModulesAt(n)
  BY <1>1 DEF HasPart, ModulesAt
<1>8. Added(i) = ModulesAt(d)
  <2>1. DOMAIN ModuleNames(manifest[i]) = 1 .. registered[i]
    BY <1>1, <1>2, ManifestFacts
  <2>2. ModulesAt(d) = Modules(manifest[i])
    BY <1>3 DEF ModulesAt
  <2> QED BY <2>1, <2>2 DEF Added, Modules, Range
<1>9. Listed' = Listed \cup ModulesAt(d)
  BY <1>1, <1>7 DEF Listed
<1>10. InstallTypeOK'
  <2>1. pc' \in [Installs -> Active \cup {"new", "over", "lost"}]
    BY <1>1 DEF InstallInv, InstallTypeOK
  <2> QED BY <1>1, <1>2, <2>1 DEF InstallInv, InstallTypeOK
<1>11. HolderInv'
  BY <1>6 DEF HolderInv
<1>12. RegistryInv'
  <2>1. registry' = Listed'
    BY <1>1, <1>8, <1>9 DEF InstallInv, RegistryInv
  <2>2. pc'[i] = "over"
    BY <1>1 DEF InstallInv, InstallTypeOK
  <2> QED BY <1>1, <1>6, <2>1, <2>2 DEF InstallInv, RegistryInv, Active
<1>13. DiskInv'
  BY <1>1, <1>2, <1>7 DEF InstallInv, DiskInv, Active, Dir
<1>14. PromiseInv' /\ ListedIsOnDisk' /\ StartsAgain'
  BY <1>1, <1>2, <1>5, <1>7 DEF InstallInv, PromiseInv, ListedIsOnDisk, StartsAgain
<1> QED BY <1>10, <1>11, <1>12, <1>13, <1>14 DEF InstallInv

\* The process dies: the directories and what was promised stay.
LEMMA CrashKeeps ==
    ASSUME InstallInv, Crash
    PROVE  InstallInv'
<1>1. /\ server' = "down" /\ installed' = {} /\ registered' = [i \in Installs |-> 0]
      /\ UNCHANGED <<manifest, disk, promised>>
  BY DEF Crash
<1>2. /\ pc' \in [Installs -> Active \cup {"new", "over", "lost"}]
      /\ \A i \in Installs : pc'[i] \notin Active
  BY DEF Crash, InstallInv, InstallTypeOK, Active
<1>3. \A n, x : (HasPart(n, x)' <=> HasPart(n, x)) /\ ModulesAt(n)' = ModulesAt(n)
  BY <1>1 DEF HasPart, ModulesAt
<1>4. InstallTypeOK'
  BY <1>1, <1>2 DEF InstallInv, InstallTypeOK
<1>5. HolderInv' /\ RegistryInv'
  BY <1>1, <1>2 DEF HolderInv, RegistryInv, Active
<1>6. DiskInv'
  BY <1>1, <1>3 DEF InstallInv, DiskInv
<1>7. PromiseInv' /\ ListedIsOnDisk' /\ StartsAgain'
  BY <1>1, <1>3 DEF InstallInv, PromiseInv, ListedIsOnDisk, StartsAgain
<1> QED BY <1>4, <1>5, <1>6, <1>7 DEF InstallInv

\* The operator removes a directory of a server that is down.
LEMMA RemoveDirKeeps ==
    ASSUME InstallInv, NEW d \in Names, RemoveDir(d)
    PROVE  InstallInv'
<1>1. /\ server # "up" /\ server' = "down" /\ disk' = [disk EXCEPT ![d] = Absent]
      /\ promised' = promised \ {d} /\ installed = {}
      /\ UNCHANGED <<lock, pc, manifest, registered, installed, registry>>
  BY DEF RemoveDir, callVars, memVars, InstallInv, PromiseInv
<1>2. /\ disk' \in [Names -> {Absent} \cup Directories] /\ disk'[d] = Absent
      /\ \A n \in Names \ {d} : disk'[n] = disk[n]
  BY <1>1 DEF InstallInv, InstallTypeOK, Directories
<1>3. /\ \A n \in Names \ {d} : \A x \in Parts : HasPart(n, x)' <=> HasPart(n, x)
      /\ \A n \in Names \ {d} : ModulesAt(n)' = ModulesAt(n)
      /\ \A x : ~HasPart(d, x)'
  BY <1>2 DEF HasPart, ModulesAt
<1>4. InstallTypeOK'
  BY <1>1, <1>2 DEF InstallInv, InstallTypeOK, Directories
<1>5. HolderInv' /\ RegistryInv'
  BY <1>1 DEF InstallInv, HolderInv, RegistryInv, Active
<1>6. DiskInv'
  <2> SUFFICES ASSUME NEW n \in Names, HasPart(n, "state")'
               PROVE  /\ HasPart(n, "src")' /\ HasPart(n, "venv")'
                      /\ ModulesAt(n)' \cap CoreModules = {}
                      /\ \A o \in Names \ {n} : HasPart(o, "state")' => ModulesAt(n)' \cap ModulesAt(o)' = {}
    BY <1>1 DEF DiskInv
  <2>1. n # d /\ HasPart(n, "state")
    BY <1>3 DEF Parts
  <2>2. /\ HasPart(n, "src") /\ HasPart(n, "venv") /\ ModulesAt(n) \cap CoreModules = {}
        /\ \A o \in Names \ {n} : HasPart(o, "state") => ModulesAt(n) \cap ModulesAt(o) = {}
    BY <2>1 DEF InstallInv, DiskInv
  <2> QED BY <1>3, <2>1, <2>2 DEF Parts
<1>7. PromiseInv' /\ ListedIsOnDisk' /\ StartsAgain'
  BY <1>1, <1>3 DEF InstallInv, InstallTypeOK, PromiseInv, ListedIsOnDisk, StartsAgain, Parts
<1> QED BY <1>4, <1>5, <1>6, <1>7 DEF InstallInv

\* Whole extensions never keep load_installed from loading: it raises only if
\* there is a state file that was written in part.
LEMMA WholeIsLoadable ==
    ASSUME InstallInv, \A n \in Names : ~HasPart(n, "torn")
    PROVE  Loadable
<1> SUFFICES ASSUME NEW n \in Complete
             PROVE  LET m == disk[n].manifest IN
                    /\ HasPart(n, "src")
                    /\ ~ManifestBad(m)
                    /\ IsInjective(ModuleNames(m))
                    /\ Modules(m) \cap CoreModules = {}
                    /\ \A o \in Complete \ {n} : Modules(m) \cap Modules(disk[o].manifest) = {}
  BY DEF Loadable
<1>1. \A o \in Complete : o \in Names /\ HasPart(o, "state")
  BY DEF Complete
<1>2. disk[n] \in Directories
  BY <1>1 DEF InstallInv, InstallTypeOK, HasPart, Directories
<1>3. disk[n].manifest \in Manifests
  BY <1>2 DEF Directories
<1>4. ~ManifestBad(disk[n].manifest) /\ IsInjective(ModuleNames(disk[n].manifest))
  BY <1>3, ManifestFacts
<1> QED BY <1>1, <1>4 DEF InstallInv, DiskInv, ModulesAt

\* load_installed takes up every complete directory, or raises.
LEMMA StartupKeeps ==
    ASSUME InstallInv, Startup
    PROVE  InstallInv'
<1>1. /\ server # "up" /\ installed = {}
      /\ UNCHANGED <<lock, pc, manifest, registered, disk, promised>>
  BY DEF Startup, callVars, InstallInv, PromiseInv
<1>2. \A n, x : (HasPart(n, x)' <=> HasPart(n, x)) /\ ModulesAt(n)' = ModulesAt(n)
  BY <1>1 DEF HasPart, ModulesAt
<1>3. \A i \in Installs : pc'[i] \notin Active
  BY <1>1 DEF InstallInv, HolderInv
<1>4. HolderInv'
  BY <1>3 DEF HolderInv
<1>5. CASE Loadable
  <2>1. /\ server' = "up" /\ installed' = Complete
        /\ registry' = CoreModules \cup UNION { ModulesAt(n) : n \in Complete }
    BY <1>5 DEF Startup, ModulesAt
  <2>2. InstallTypeOK'
    BY <1>1, <2>1 DEF InstallInv, InstallTypeOK, Complete
  <2>3. registry' = Listed'
    BY <1>2, <2>1 DEF Listed
  <2>4. RegistryInv'
    BY <1>1, <1>3, <2>3 DEF InstallInv, RegistryInv, Active
  <2>5. DiskInv'
    BY <1>2, <2>1 DEF InstallInv, DiskInv, Complete
  <2>6. PromiseInv' /\ ListedIsOnDisk' /\ StartsAgain'
    BY <1>1, <1>2, <2>1 DEF InstallInv, InstallTypeOK, DiskInv, PromiseInv, ListedIsOnDisk, StartsAgain, Complete
  <2> QED BY <1>4, <2>2, <2>4, <2>5, <2>6 DEF InstallInv
<1>6. CASE ~Loadable
  <2>1. server' = "refused" /\ installed' = installed
    BY <1>6 DEF Startup, memVars
  <2>2. InstallTypeOK'
    BY <1>1, <2>1 DEF InstallInv, InstallTypeOK
  <2>3. RegistryInv' /\ DiskInv'
    BY <1>1, <1>2, <1>3, <2>1 DEF InstallInv, RegistryInv, DiskInv, Active
  <2>4. PromiseInv' /\ ListedIsOnDisk'
    BY <1>1, <1>2, <2>1 DEF InstallInv, PromiseInv, ListedIsOnDisk
  <2>5. StartsAgain'
    BY <1>2, <1>6, WholeIsLoadable DEF StartsAgain
  <2> QED BY <1>4, <2>2, <2>3, <2>4, <2>5 DEF InstallInv
<1> QED BY <1>5, <1>6

LEMMA InstallNext_InstallInv == InstallInv /\ [InstallNext]_installVars => InstallInv'
<1> SUFFICES ASSUME InstallInv, [InstallNext]_installVars PROVE InstallInv'
  OBVIOUS
<1>1. CASE \E i \in Installs : Install(i)
  BY <1>1, RefusalsKeep, AcceptKeeps, DirectoryStepsKeep, RegisterModuleKeeps, InstalledKeeps DEF Install
<1>2. CASE Crash
  BY <1>2, CrashKeeps
<1>3. CASE \E n \in Names : RemoveDir(n)
  BY <1>3, RemoveDirKeeps
<1>4. CASE Startup
  BY <1>4, StartupKeeps
<1>5. CASE UNCHANGED installVars
  <2>1. UNCHANGED <<server, lock, pc, manifest, registered, installed, registry, disk, promised>>
    BY <1>5 DEF installVars, callVars, memVars
  <2>2. /\ Listed' = Listed /\ \A i : Dir(i)' = Dir(i) /\ Added(i)' = Added(i)
        /\ \A n, x : (HasPart(n, x)' <=> HasPart(n, x)) /\ ModulesAt(n)' = ModulesAt(n)
    BY <2>1 DEF Listed, Dir, Added, HasPart, ModulesAt
  <2>3. InstallTypeOK'
    BY <2>1 DEF InstallInv, InstallTypeOK
  <2>4. HolderInv'
    BY <2>1, <2>2 DEF InstallInv, HolderInv
  <2>5. RegistryInv' /\ DiskInv'
    BY <2>1, <2>2 DEF InstallInv, RegistryInv, DiskInv
  <2>6. PromiseInv' /\ ListedIsOnDisk' /\ StartsAgain'
    BY <2>1, <2>2 DEF InstallInv, PromiseInv, ListedIsOnDisk, StartsAgain
  <2> QED BY <2>3, <2>4, <2>5, <2>6 DEF InstallInv
<1> QED BY <1>1, <1>2, <1>3, <1>4, <1>5 DEF InstallNext, Idle

-----------------------------------------------------------------------------
(* The theorems.                                                           *)

\* The invariant of the install lock, the registry and the directory.
THEOREM InstallCorrect == InstallSpec => []InstallInv
  BY InstallInit_InstallInv, InstallNext_InstallInv, PTL DEF InstallSpec

\* "a crashed install is never mistaken for a complete one" (ADR 0012), but for
\* a state file that was written in part.
THEOREM ListedIsOnDiskHolds == InstallSpec => []ListedIsOnDisk
<1>1. InstallInv => ListedIsOnDisk
  BY DEF InstallInv
<1> QED BY <1>1, InstallCorrect, PTL

\* An extension that was reported as installed stays, across crashes.
THEOREM PromiseKeptHolds == InstallSpec => []PromiseKept
<1>1. InstallInv => PromiseKept
  <2> SUFFICES ASSUME InstallInv, server = "up", NEW n \in promised
               PROVE  n \in installed /\ disk[n] # Absent /\ Modules(disk[n].manifest) \subseteq registry
    BY DEF PromiseKept
  <2>1. n \in installed /\ disk[n] # Absent
    BY DEF InstallInv, PromiseInv, HasPart
  <2>2. Listed \subseteq registry
    BY DEF InstallInv, RegistryInv
  <2> QED BY <2>1, <2>2 DEF Listed, ModulesAt
<1> QED BY <1>1, InstallCorrect, PTL

\* load_installed raises only over a state file that was written in part.
THEOREM StartsAgainHolds == InstallSpec => []StartsAgain
<1>1. InstallInv => StartsAgain
  BY DEF InstallInv
<1> QED BY <1>1, InstallCorrect, PTL

=============================================================================
