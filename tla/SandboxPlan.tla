----------------------------- MODULE SandboxPlan -----------------------------
(***************************************************************************)
(* From the configuration to the container of a run: the layers of the     *)
(* settings (lib/config.mjs), the chain of sandbox profiles, the mounts    *)
(* each of them adds, the refusals of buildRunSettings (pi-companion.mjs)  *)
(* and the volumes "docker run" is given (buildDockerRunArgs of            *)
(* lib/sandbox.mjs).  Volumes outlive containers, which is what the        *)
(* properties are about.                                                   *)
(*                                                                         *)
(* Mounts are a function of their path in the container.  Only the layers  *)
(* of the user, and of a workspace the user trusts, are modelled.          *)
(***************************************************************************)
EXTENDS Integers, SequencesExt

CONSTANTS
  Jobs,
  Workspaces,
  Trusted,        (* the workspaces the user vouches for                     *)
  Profiles,
  Configs,        (* the configurations considered, of type Config           *)
  Gitconfig,      (* the path of .gitconfig in the container                 *)
  Equipment       (* the path of a directory with skills in the container    *)

VARIABLES
  config,
  containers      (* what each job was started with                          *)

vars == <<config, containers>>

Unset == "unset"
None  == "none"
Targets == {Gitconfig, Equipment}

(* parseMount: a named volume, a directory of the host or one that is not    *)
(* there; with the options ":ro" and ":isolate".                             *)
Mount == [source : {"volume", "path", "missing"}, ro : BOOLEAN, isolate : BOOLEAN]

Mounts == UNION {[S -> Mount] : S \in SUBSET Targets}
NoMounts == [t \in {} |-> Unset]

(* A profile starts from another one; a layer of the settings picks one.     *)
Profile == [base : Profiles \cup {Unset}, mounts : Mounts, agentDir : {Unset, "volume", "host"}]
Layer   == [sandbox : Profiles \cup {Unset, None, "docker"}, mounts : Mounts]

Config ==
  [profiles : [Profiles -> Profile], defaults : Layer, preset : Layer, project : Layer,
   flags : Layer, skills : BOOLEAN, git : BOOLEAN]

Absent  == <<>>
Agent   == "agent directory"

TypeOK ==
  /\ config \in Config
  /\ \A j \in Jobs :
       containers[j] # Absent =>
         /\ containers[j].at \in Workspaces /\ containers[j].up \in BOOLEAN
         /\ \A v \in containers[j].volumes : v.target \in Targets \cup {Agent}

Init ==
  /\ config \in Configs
  /\ containers = [j \in Jobs |-> Absent]
-----------------------------------------------------------------------------
(* concatAdditive, attachMounts: a later mount on the same path wins.        *)
Over(base, layer) ==
  [t \in DOMAIN base \cup DOMAIN layer |-> IF t \in DOMAIN layer THEN layer[t] ELSE base[t]]

(* Mutant: the mounts of a layer are all there are.                          *)
Instead(base, layer) == IF DOMAIN layer = {} THEN base ELSE layer

Merged(base, layer) == Over(base, layer)

(* mergeConfigLayer: the project may go over a preset of the user.           *)
MergedPreset(ws) ==
  IF ws \notin Trusted THEN config.preset
  ELSE [sandbox |-> IF config.project.sandbox = Unset THEN config.preset.sandbox
                    ELSE config.project.sandbox,
        mounts  |-> Merged(config.preset.mounts, config.project.mounts)]

(* resolveRunSettings: the highest layer that has a sandbox, and the mounts  *)
(* of all, from the lowest to the highest.                                   *)
Layers(ws) == <<config.defaults, MergedPreset(ws), config.flags>>

Picked(ws) ==
  LET set == {i \in 1 .. 3 : Layers(ws)[i].sandbox # Unset}
  IN  IF set = {} THEN None
      ELSE Layers(ws)[CHOOSE i \in set : \A k \in set : k <= i].sandbox

OwnMounts(ws) ==
  Merged(Merged(config.defaults.mounts, MergedPreset(ws).mounts), config.flags.mounts)

(* normalizeSandbox of a profile: its own fields over those of its base, and *)
(* an error for a chain that comes back to itself.                           *)
Resolved[call \in Profiles \X SUBSET Profiles] ==
  LET p    == call[1]
      seen == call[2]
      own  == config.profiles[p]
      base == IF own.base = Unset THEN [mounts |-> NoMounts, agentDir |-> "volume"]
              ELSE Resolved[<<own.base, seen \cup {p}>>]
  IN  IF p \in seen \/ base = Absent THEN Absent
      ELSE [mounts   |-> Merged(base.mounts, own.mounts),
            agentDir |-> IF own.agentDir = Unset THEN base.agentDir ELSE own.agentDir]

Sandbox(ws) ==
  IF Picked(ws) = "docker" THEN [mounts |-> NoMounts, agentDir |-> "volume"]
  ELSE Resolved[<<Picked(ws), {}>>]

(* attachMounts of the run's own mounts.                                     *)
Planned(ws) == Merged(Sandbox(ws).mounts, OwnMounts(ws))

(* sandboxMountGaps, of a run with skills.                                   *)
Gap(mounts) ==
  /\ config.skills
  /\ Equipment \notin DOMAIN mounts \/ mounts[Equipment].source = "missing"

(* anonymousVolumeFor: only a writable named volume can be replaced by one   *)
(* that dies with the container.                                             *)
Replaceable(mount) == mount.source = "volume" /\ ~mount.ro

Isolates(ws) == ws \notin Trusted

(* Mutant: only what is marked is separated.                                 *)
SharesUnlessMarked(ws, mount) == mount.isolate

Separated(ws, mount) == mount.isolate \/ (Isolates(ws) /\ Replaceable(mount))

PerRun(j, ws) == << j >>

(* The volumes of the container: the agent directory, named by the workspace *)
(* if that is not trusted; the mounts, without a .gitconfig beside that of   *)
(* the git proxy.                                                            *)
Volumes(j, ws) ==
  LET mounts == Planned(ws)
      agent  == [target |-> Agent, ro |-> FALSE,
                 source |-> IF Sandbox(ws).agentDir = "host" THEN <<"host">>
                            ELSE IF Isolates(ws) THEN <<"agent", ws>> ELSE <<"agent">>]
      volume(t) ==
        [target |-> t, ro |-> mounts[t].ro,
         source |-> IF Separated(ws, mounts[t]) THEN PerRun(j, ws) ELSE <<mounts[t].source, t>>]
  IN  {agent} \cup {volume(t) : t \in DOMAIN mounts \ (IF config.git THEN {Gitconfig} ELSE {})}
        \cup (IF config.git THEN {[target |-> Gitconfig, ro |-> TRUE, source |-> <<"proxy", j>>]} ELSE {})

(* buildRunSettings and the start of the run.  What is refused leaves no     *)
(* container: a cycle of profiles, a gap, ":isolate" where it cannot work;   *)
(* without a sandbox there is none either, and mounts are refused.           *)
Launch(j) ==
  /\ containers[j] = Absent
  /\ \E ws \in Workspaces :
       /\ Picked(ws) # None
       /\ Sandbox(ws) # Absent
       /\ ~Gap(Planned(ws))
       /\ \A t \in DOMAIN Planned(ws) :
            Planned(ws)[t].isolate => Replaceable(Planned(ws)[t]) \/ (config.git /\ t = Gitconfig)
       /\ containers' = [containers EXCEPT ![j] = [at |-> ws, up |-> TRUE, volumes |-> Volumes(j, ws)]]
  /\ UNCHANGED config

(* --rm: the container goes, with its anonymous volumes.                     *)
Ends(j) ==
  /\ containers[j] # Absent /\ containers[j].up
  /\ containers' = [containers EXCEPT ![j].up = FALSE]
  /\ UNCHANGED config

Next == \E j \in Jobs : Launch(j) \/ Ends(j)

Spec == Init /\ [][Next]_vars
-----------------------------------------------------------------------------
Started == {j \in Jobs : containers[j] # Absent}

SourcesOf(j)  == {v.source : v \in {w \in containers[j].volumes : w.source[1] \notin {"path", "host", "missing"}}}
WritableOf(j) == {v.source : v \in {w \in containers[j].volumes : ~w.ro /\ w.source[1] \notin {"path", "host", "missing"}}}

(* What a run in a workspace the user does not vouch for could write, no run *)
(* of another workspace is given (isolatesState), and the store of a run     *)
(* that is marked ":isolate" is given to no other run at all.                *)
StateStaysApart ==
  \A j, k \in Started : j # k =>
    /\ containers[j].at \notin Trusted /\ containers[k].at # containers[j].at
         => WritableOf(j) \cap SourcesOf(k) = {}
    /\ \A v \in containers[j].volumes :
         v.target \in Targets /\ v.target \in DOMAIN Planned(containers[j].at)
           /\ Planned(containers[j].at)[v.target].isolate => v.source \notin SourcesOf(k)

(* The layers that could decide on a path, the nearest first.                *)
Chain[call \in Profiles \X SUBSET Profiles] ==
  LET p    == call[1]
      seen == call[2]
      own  == config.profiles[p]
  IN  IF p \in seen THEN <<>>
      ELSE << own.mounts >> \o
             (IF own.base = Unset THEN <<>> ELSE Chain[<<own.base, seen \cup {p}>>])

Nearest(ws) ==
  <<config.flags.mounts>> \o (IF ws \in Trusted THEN <<config.project.mounts>> ELSE <<>>)
    \o <<config.preset.mounts, config.defaults.mounts>>
    \o (IF Picked(ws) = "docker" THEN <<>> ELSE Chain[<<Picked(ws), {}>>])

(* A writable named volume is replaced by one of the run where the workspace *)
(* is not trusted, and one that is marked ":isolate" everywhere.             *)
ReplacedAt(mount, ws) == mount.isolate \/ (ws \notin Trusted /\ mount.source = "volume" /\ ~mount.ro)

(* The skills are there: what carries them is mounted, and not an empty      *)
(* volume of the run in its place.                                           *)
Equipped(j) ==
  \E v \in containers[j].volumes :
    v.target = Equipment /\ v.source \in {<<"volume", Equipment>>, <<"path", Equipment>>}

(* Equipment adds up over the layers and the profiles a profile starts from: *)
(* what any of them mounts is mounted, as the nearest one says and from the  *)
(* place it says, unless that is a volume other runs may not share; a path   *)
(* is mounted once, .gitconfig too.  And the run has the skills, but for one *)
(* case, in which it starts without them: they were in a volume that is      *)
(* replaced by an empty one.                                                 *)
EquipmentAddsUp ==
  \A j \in Started :
    LET ws     == containers[j].at
        chain  == Nearest(ws)
        who(t) == {i \in DOMAIN chain : t \in DOMAIN chain[i]}
    IN  /\ \A v, w \in containers[j].volumes : v.target = w.target => v = w
        /\ \A t \in Targets \ (IF config.git THEN {Gitconfig} ELSE {}) :
             /\ who(t) = {} <=> ~\E v \in containers[j].volumes : v.target = t
             /\ who(t) # {} =>
                  \E v \in containers[j].volumes, i \in who(t) :
                    /\ \A k \in who(t) : i <= k
                    /\ v.target = t /\ v.ro = chain[i][t].ro
                    /\ v.source = IF ReplacedAt(chain[i][t], ws) THEN << j >>
                                  ELSE <<chain[i][t].source, t>>
        /\ config.skills =>
             \/ Equipped(j)
             \/ \E i \in who(Equipment) :
                  (\A k \in who(Equipment) : i <= k) /\ ReplacedAt(chain[i][Equipment], ws)

(* docs/sandbox.md (40-42): "Equipment that will not arrive stops the run",  *)
(* for else the agent would run "without the rules that equipment carries,   *)
(* while the run looks entirely normal".  Not so: sandboxMountGaps passes    *)
(* over named volumes, and where the workspace is not trusted a writable one *)
(* is replaced by an empty one.                                              *)
SkillsArrive == \A j \in Started : config.skills => Equipped(j)
=============================================================================
