------------------------------- MODULE MCParts -------------------------------
(***************************************************************************)
(* Instances of the parts.  Parts.cfg has the sizes; the forges and the    *)
(* configurations are defined here.                                        *)
(***************************************************************************)
EXTENDS Parts

CONSTANTS a, b     (* two repositories *)

(* One exchange at a time, two forges with two repositories each; the first  *)
(* two locations may be moved, along a chain or in a circle too.             *)
Location(host, path) == [host |-> host, path |-> path]
Places    == {Location(h, p) : h \in {"h1", "h2"}, p \in {a, b}}
TwoPaths  == {a, b}

MovesOfTwo ==
  {[l \in Places |-> IF l = Location("h1", a) THEN m
                     ELSE IF l = Location("h1", b) THEN n ELSE l] :
     m \in Places, n \in {Location("h1", a), Location("h1", b), Location("h2", b)}}

(* Answers of four lengths, two of them long.                                *)
FourLengths == 1 .. 4

(* Two runs in a trusted workspace and another; a profile that starts from   *)
(* another one, back to itself too, and the mounts each layer may add.       *)
Volume == [source |-> "volume", ro |-> FALSE, isolate |-> FALSE]
At(t, mount) == [x \in {t} |-> mount]
Nothing == [t \in {} |-> Volume]
ReadOnly == [Volume EXCEPT !.ro = TRUE]

Layer(sandbox, mounts) == [sandbox |-> sandbox, mounts |-> mounts]

ConfigsOfTwo ==
  {[profiles |-> [p \in {"go", "mem"} |->
       IF p = "go" THEN [base |-> base, mounts |-> own, agentDir |-> agentDir]
       ELSE [base |-> "go", mounts |-> At("gitconfig", Volume), agentDir |-> "unset"]],
    defaults |-> Layer("go", Nothing), preset |-> Layer(chosen, more),
    project |-> Layer("unset", theirs), flags |-> Layer("unset", last), skills |-> skills, git |-> git] :
     base \in {"unset", "mem"}, agentDir \in {"unset", "host"},
     own \in {Nothing} \cup {At("skills", m) : m \in
       {Volume, ReadOnly, [Volume EXCEPT !.isolate = TRUE], [Volume EXCEPT !.source = "path"]}},
     chosen \in {"unset", "mem", "docker"},
     more \in {Nothing, At("skills", [Volume EXCEPT !.source = "missing"])},
     theirs \in {Nothing, At("skills", Volume)}, last \in {Nothing, At("skills", ReadOnly)},
     skills \in BOOLEAN, git \in BOOLEAN}
=============================================================================
