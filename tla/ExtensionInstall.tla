------------------------- MODULE ExtensionInstall -------------------------
(***************************************************************************)
(* POST /v1/extensions and ExtensionManager (extensions.py): install, one  *)
(* step per change it makes to the extensions directory and to the module  *)
(* registry, with a failure possible at each, and load_installed when the  *)
(* server starts; the server may die between any two steps.  A source is   *)
(* the manifest in it (extension.toml); an extension's directory is the    *)
(* set of its complete parts.                                              *)
(***************************************************************************)
EXTENDS Naturals, Sequences, FiniteSets, Functions

CONSTANTS
    Installs,    \* requests POST /v1/extensions, each made at most once
    Sources,     \* Sources[i]: what may be found at the path i names: Absent (no
                 \* directory, or no manifest that is TOML), or a manifest, a
                 \* record [name, version, isolation, requirements, modules]
    CoreModules, \* modules registered in process
    MaxCrashes,  \* bound: how often the server dies
    NoInstall, Absent,
    Bad          \* a field that is missing, empty or of a form not accepted

ASSUME InstallAssumption == MaxCrashes \in Nat /\ NoInstall \notin Installs

-----------------------------------------------------------------------------
(* parse_extension_manifest.                                               *)

ModuleNames(m) == [k \in DOMAIN m.modules |-> m.modules[k].name]

\* _ports: there is at least one, and each has a name and a type.
PortsBad(ports) == ports = << >> \/ \E k \in DOMAIN ports : Bad \in {ports[k].name, ports[k].type}

HeaderBad(m) ==
    m.name = Bad \/ m.version = Bad \/ m.isolation # "isolated" \/ m.requirements = Bad

ModuleBad(d) == Bad \in {d.name, d.entry} \/ PortsBad(d.inputs) \/ PortsBad(d.outputs)

\* Mutant: the same module name may be there twice.
ManifestBadNoDup(m) ==
    \/ m = Absent \/ HeaderBad(m) \/ m.modules = << >>
    \/ \E k \in DOMAIN m.modules : ModuleBad(m.modules[k])

\* What makes it raise, at the install or when the server starts.
ManifestBad(m) ==
    \/ m = Absent \/ HeaderBad(m) \/ m.modules = << >>
    \/ \E k \in DOMAIN m.modules : ModuleBad(m.modules[k])
    \/ ~IsInjective(ModuleNames(m))

Names == { m.name : m \in UNION { Sources[i] \ {Absent} : i \in Installs } } \ {Bad}

\* What an extension's directory holds: the copied source, the venv, and the
\* state file, whole or as a failed write left it.
Parts == {"src", "venv", "state", "torn"}

\* A manifest lists its modules in an order, and a directory that is there is
\* not one that is Absent.
ASSUME SourcesAssumption ==
    \A i \in Installs : \A m \in Sources[i] \ {Absent} :
        /\ m.modules \in Seq(Range(m.modules))
        /\ \A x \in SUBSET Parts : [manifest |-> m, parts |-> x] # Absent

VARIABLES
    server,     \* up, down, or refused: load_installed raised
    crashes,    \* how often it died
    lock,       \* the install that holds _install_lock
    pc,         \* pc[i]: where install(i) stands
    manifest,   \* manifest[i]: the manifest install(i) has parsed
    registered, \* registered[i]: how many of its modules _register has added
    answer,     \* answer[i]: what the client was told
    installed,  \* keys of _installed
    registry,   \* names in the module registry
    disk,       \* disk[n]: Absent, or what is in the directory n
    promised    \* names of installs answered 201 and not removed since

callVars    == <<lock, pc, manifest, registered, answer>>
memVars     == <<installed, registry>>
installVars == <<server, crashes, callVars, memVars, disk, promised>>

Modules(m) == Range(ModuleNames(m))

Dir(i) == manifest[i].name

HasPart(n, x) == disk[n] # Absent /\ x \in disk[n].parts

InstallInit ==
    /\ server = "up"
    /\ crashes = 0
    /\ lock = NoInstall
    /\ pc = [i \in Installs |-> "new"]
    /\ manifest = [i \in Installs |-> Absent]
    /\ registered = [i \in Installs |-> 0]
    /\ answer = [i \in Installs |-> "none"]
    /\ installed = {}
    /\ registry = CoreModules
    /\ disk = [n \in Names |-> Absent]
    /\ promised = {}

-----------------------------------------------------------------------------
(* install(), under _install_lock.                                         *)

LockFree == lock = NoInstall

\* Mutant: module names are not looked up beforehand.
ConflictNoModules(m) == m.name \in installed \/ disk[m.name] # Absent

\* What i may find and parse_extension_manifest accepts.
Parsed(i) == { m \in Sources[i] : ~ManifestBad(m) }

\* The checks before anything is written.
Conflict(m) ==
    \/ m.name \in installed
    \/ Modules(m) \cap registry # {}
    \/ disk[m.name] # Absent

Answer(i, a) ==
    /\ pc' = [pc EXCEPT ![i] = "over"]
    /\ answer' = [answer EXCEPT ![i] = a]

\* install_extension: the body is not JSON, no object, or has no path (400).
Refuse(i) ==
    /\ server = "up" /\ pc[i] = "new"
    /\ Answer(i, "refused")
    /\ UNCHANGED <<server, crashes, lock, manifest, registered, memVars, disk, promised>>

\* The source or its manifest is no good (422), or the extension conflicts (409).
Reject(i) ==
    /\ server = "up" /\ pc[i] = "new" /\ LockFree
    /\ \/ Sources[i] # Parsed(i) /\ Answer(i, "invalid")
       \/ (\E m \in Parsed(i) : Conflict(m)) /\ Answer(i, "conflict")
    /\ UNCHANGED <<server, crashes, lock, manifest, registered, memVars, disk, promised>>

Accept(i) ==
    /\ server = "up" /\ pc[i] = "new" /\ LockFree
    /\ \E m \in Parsed(i) : ~Conflict(m) /\ manifest' = [manifest EXCEPT ![i] = m]
    /\ lock' = i
    /\ pc' = [pc EXCEPT ![i] = "mkdir"]
    /\ UNCHANGED <<server, crashes, registered, answer, memVars, disk, promised>>

\* One step of the try block: the directory gets a new content.
Write(i, from, to, content) ==
    /\ pc[i] = from
    /\ pc' = [pc EXCEPT ![i] = to]
    /\ disk' = [disk EXCEPT ![Dir(i)] = content]
    /\ UNCHANGED <<server, crashes, lock, manifest, registered, answer, memVars, promised>>

\* The content of i's directory with the part x as well.
With(i, x) == [disk[Dir(i)] EXCEPT !.parts = @ \cup {x}]

AddPart(i, from, to, x) == Write(i, from, to, With(i, x)) /\ disk[Dir(i)] # Absent

\* copytree begins by making the directory, which must not be there.
MakeDir(i) ==
    /\ Write(i, "mkdir", "copy", [manifest |-> manifest[i], parts |-> {}])
    /\ disk[Dir(i)] = Absent

\* Mutant: the state file is written with the source, before the venv.
CopySourceAndState(i) ==
    Write(i, "copy", "venv", [disk[Dir(i)] EXCEPT !.parts = @ \cup {"src", "state"}])

CopySource(i) == AddPart(i, "copy", "venv", "src")

\* venv.create, and pip if there are requirements.
CreateVenv(i) == AddPart(i, "venv", "state", "venv")

WriteState(i) == AddPart(i, "state", "register", "state")

\* An OSError or ExtensionError in one of these steps (a pip timeout included).
\* A write of the state file that fails may leave the file.
StepFails(i) ==
    /\ pc[i] \in {"mkdir", "copy", "venv", "state"}
    /\ pc' = [pc EXCEPT ![i] = "cleanup"]
    /\ \/ UNCHANGED disk
       \/ /\ pc[i] = "state"
          /\ disk' = [disk EXCEPT ![Dir(i)] = With(i, "torn")]
    /\ UNCHANGED <<server, crashes, lock, manifest, registered, answer, memVars, promised>>

\* _register adds the next module; a name that is taken (ValueError) takes the
\* ones added so far back.
RegisterModule(i) ==
    LET k == registered[i] + 1
        names == ModuleNames(manifest[i]) IN
    /\ pc[i] = "register"
    /\ k <= Len(names)
    /\ IF names[k] \in registry
          THEN /\ registry' = registry \ { names[j] : j \in 1 .. k - 1 }
               /\ pc' = [pc EXCEPT ![i] = "cleanup"]
               /\ UNCHANGED registered
          ELSE /\ registry' = registry \cup {names[k]}
               /\ registered' = [registered EXCEPT ![i] = k]
               /\ UNCHANGED pc
    /\ UNCHANGED <<server, crashes, lock, manifest, answer, installed, disk, promised>>

\* Mutant: _register returns from inside its loop.
InstalledEarly(i) ==
    /\ pc[i] = "register"
    /\ registered[i] = 1
    /\ installed' = installed \cup {Dir(i)}
    /\ promised' = promised \cup {Dir(i)}
    /\ Answer(i, "installed")
    /\ lock' = NoInstall
    /\ UNCHANGED <<server, crashes, manifest, registered, registry, disk>>

\* All its modules are there: 201.
Installed(i) ==
    /\ pc[i] = "register"
    /\ registered[i] = Len(manifest[i].modules)
    /\ installed' = installed \cup {Dir(i)}
    /\ promised' = promised \cup {Dir(i)}
    /\ Answer(i, "installed")
    /\ lock' = NoInstall
    /\ UNCHANGED <<server, crashes, manifest, registered, registry, disk>>

\* rmtree takes one part after the other away, in any order ...
RemovePart(i, x) ==
    /\ pc[i] = "cleanup"
    /\ HasPart(Dir(i), x)
    /\ disk' = [disk EXCEPT ![Dir(i)].parts = @ \ {x}]
    /\ UNCHANGED <<server, crashes, callVars, memVars, promised>>

\* ... and in the end the directory, unless errors kept it there, which are
\* ignored.
CleanupEnds(i) ==
    /\ pc[i] = "cleanup"
    /\ \/ /\ \A x \in Parts : ~HasPart(Dir(i), x)
          /\ disk' = [disk EXCEPT ![Dir(i)] = Absent]
       \/ UNCHANGED disk
    /\ Answer(i, "failed")
    /\ lock' = NoInstall
    /\ UNCHANGED <<server, crashes, manifest, registered, memVars, promised>>

Install(i) ==
    \/ Refuse(i) \/ Reject(i) \/ Accept(i)
    \/ MakeDir(i) \/ CopySource(i) \/ CreateVenv(i) \/ WriteState(i) \/ StepFails(i)
    \/ RegisterModule(i) \/ Installed(i)
    \/ (\E x \in Parts : RemovePart(i, x)) \/ CleanupEnds(i)

-----------------------------------------------------------------------------
(* The life of the server.                                                 *)

\* The process dies; what it had in memory is lost, and so are its requests.
Crash ==
    /\ server = "up"
    /\ crashes < MaxCrashes
    /\ crashes' = crashes + 1
    /\ server' = "down"
    /\ lock' = NoInstall
    /\ pc' = [i \in Installs |-> IF pc[i] \in {"new", "over"} THEN pc[i] ELSE "lost"]
    /\ registered' = [i \in Installs |-> 0]
    /\ installed' = {}
    /\ registry' = CoreModules
    /\ UNCHANGED <<manifest, answer, disk, promised>>

\* The operator removes a directory, as the conflict message and ADR 0013 say.
RemoveDir(n) ==
    /\ server # "up"
    /\ server' = "down"
    /\ disk[n] # Absent
    /\ disk' = [disk EXCEPT ![n] = Absent]
    /\ promised' = promised \ {n}
    /\ UNCHANGED <<crashes, callVars, memVars>>

\* Directories with a state file, which is not read, are taken for complete.
Complete == { n \in Names : HasPart(n, "state") \/ HasPart(n, "torn") }

\* The manifest copied to each of them can be parsed, no module name is in it
\* twice, and no two of them, nor one of them and the core, have one in common.
Loadable ==
    \A n \in Complete :
        LET m == disk[n].manifest IN
        /\ HasPart(n, "src")
        /\ ~ManifestBad(m)
        /\ IsInjective(ModuleNames(m))
        /\ Modules(m) \cap CoreModules = {}
        /\ \A o \in Complete \ {n} : Modules(m) \cap Modules(disk[o].manifest) = {}

\* create_app: load_installed registers every complete extension, or raises.
Startup ==
    /\ server # "up"
    /\ IF Loadable
          THEN /\ server' = "up"
               /\ installed' = Complete
               /\ registry' = CoreModules \cup UNION { Modules(disk[n].manifest) : n \in Complete }
          ELSE /\ server' = "refused"
               /\ UNCHANGED memVars
    /\ UNCHANGED <<crashes, callVars, disk, promised>>

Idle ==
    /\ server = "up"
    /\ \A i \in Installs : pc[i] \in {"over", "lost"}
    /\ UNCHANGED installVars

InstallNext ==
    \/ \E i \in Installs : Install(i)
    \/ Crash
    \/ \E n \in Names : RemoveDir(n)
    \/ Startup
    \/ Idle

InstallSpec == InstallInit /\ [][InstallNext]_installVars

-----------------------------------------------------------------------------
(* Properties.                                                             *)

\* "A state file (`installed.json`) is written last, so a crashed install is
\* never mistaken for a complete one" (ADR 0012): an extension that is listed has
\* its directory, whole.  Nobody else's failed install removes it, and after a
\* crash load_installed lists no debris, unless the state file is one that a
\* failed write left.
ListedIsOnDisk ==
    \A n \in installed : HasPart(n, "torn") \/ \A x \in {"src", "venv", "state"} : HasPart(n, x)

\* A 201 is kept: until the operator removes it, whenever the server is up the
\* extension is listed and its modules are registered, across crashes.
PromiseKept ==
    server = "up" => \A n \in promised : /\ n \in installed
                                         /\ disk[n] # Absent
                                         /\ Modules(disk[n].manifest) \subseteq registry

\* Whatever the moment the server died at, it starts again: of the directories
\* it finds, only one whose state file a failed write left can make
\* load_installed raise.
StartsAgain == server = "refused" => \E n \in Names : HasPart(n, "torn")

=============================================================================
