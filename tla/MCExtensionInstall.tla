------------------------ MODULE MCExtensionInstall ------------------------
(* Requests for TLC: two installs of one extension, one of another that     *)
(* shares a module name with it, and one of a source that is no good.       *)
EXTENDS ExtensionInstall, TLC

CONSTANTS first, again, other, odd, scan, trace, broken, m1, m2, m3

Port(t) == <<[name |-> "image", type |-> t]>>

Module(x) == [name |-> x, entry |-> "main:run", inputs |-> Port("png"), outputs |-> Port("svg")]

Manifest(n, names) ==
    [name |-> n, version |-> "1", isolation |-> "isolated", requirements |-> << >>,
     modules |-> [k \in DOMAIN names |-> Module(names[k])]]

\* What may be wrong: no manifest, a bad header, a bad module, a module twice.
Broken ==
    LET b == Manifest(broken, <<m3>>) IN
    { Absent, Manifest(Bad, <<m3>>), [b EXCEPT !.version = Bad], [b EXCEPT !.isolation = "shared"],
      [b EXCEPT !.requirements = Bad], Manifest(broken, << >>), Manifest(broken, <<Bad>>),
      [b EXCEPT !.modules[1].entry = Bad], [b EXCEPT !.modules[1].inputs = << >>],
      [b EXCEPT !.modules[1].outputs[1].type = Bad], Manifest(broken, <<m3, m3>>) }

ModelSources ==
    (first :> {Manifest(scan, <<m1, m2>>)}) @@ (again :> {Manifest(scan, <<m1, m2>>)})
    @@ (other :> {Manifest(trace, <<m3, m2>>)}) @@ (odd :> Broken)

=============================================================================
