------------------------------ MODULE Deployment ------------------------------
(***************************************************************************)
(* deploy/deploy.sh with what it acts on: the images of the host, the one  *)
(* container of deploy/compose.yml and its process, which boots as in      *)
(* lifespan (src/main.py) or dies trying, /healthz, and the service run by *)
(* hand that the script names as the fallback.  The commands of the script *)
(* run in order; nothing else waits for them.  At most one deployment runs *)
(* (the workflow's concurrency group).                                     *)
(***************************************************************************)
EXTENDS Naturals, FiniteSets, SequencesExt

CONSTANTS
  Shas,          \* commits, whose short hashes are the tags of images
  KeepTags,      \* KEEP_TAGS
  Tries,         \* how often the health gate asks
  MaxBuilds,     \* bound on the number of images
  None

ASSUME NumbersAssumption ==
  KeepTags \in Nat \ {0} /\ Tries \in Nat \ {0} /\ MaxBuilds \in Nat
ASSUME CommitsAssumption == IsFiniteSet(Shas)
ASSUME NoneAssumption == None \notin Shas \cup (0..MaxBuilds)

Images == 1..MaxBuilds
Containers == [tag: Shas, image: Images]

ASSUME ContainersAssumption == None \notin Containers

VARIABLES
  builds,        \* number of images built; a larger one is younger
  tags,          \* [Shas -> Images \cup {None}]: storage-service:<tag>
  sound,         \* images whose process gets through lifespan with the .env of the server
  container,     \* the container storage-service: its image by name and in fact, or None
  process,       \* in the container: "none", "booting" (or dying and restarted), "serving"
  byHand,        \* scripts/run-service.sh holds the port
  diskLow,       \* less than storage_min_free_bytes, or the root is out of reach
  phase,         \* where the script is
  sha, prev,     \* its variables SHA and PREV
  tries,         \* rounds of the gate that are left
  doomed,        \* the tags that xargs has still to hand to "docker rmi"
  refused,       \* how many it has handed over in vain
  green,         \* what the container was when a deployment was last declared healthy
  undisturbed    \* since then nobody has killed the script between start and roll-back,
                 \* every "up -d" has succeeded and nobody has removed the container

docker == <<builds, tags, sound, container, process>>
host == <<byHand, diskLow>>
pruning == <<doomed, refused>>
script == <<phase, sha, prev, tries, pruning>>
vars == <<docker, host, script, green, undisturbed>>

-----------------------------------------------------------------------------
Init ==
  /\ builds = 0
  /\ tags = [s \in Shas |-> None]
  /\ sound = {}
  /\ container = None
  /\ process = "none"
  /\ byHand = FALSE
  /\ diskLow = FALSE
  /\ phase = "idle"
  /\ sha = None
  /\ prev = None
  /\ tries = 0
  /\ doomed = <<>>
  /\ refused = 0
  /\ green = None
  /\ undisturbed = TRUE

Exit ==
  /\ phase' = "idle" /\ sha' = None /\ prev' = None /\ tries' = 0
  /\ doomed' = <<>> /\ refused' = 0

-----------------------------------------------------------------------------
(* The script.                                                             *)

\* PREV is the image the container was made from, by name.
Inspect(s) ==
  /\ phase = "idle"
  /\ sha' = s
  /\ prev' = IF container = None THEN None ELSE container.tag
  /\ phase' = "build"
  /\ UNCHANGED <<docker, host, tries, pruning, green, undisturbed>>

\* docker build: a new image, or the cached one that the same files gave before, be it
\* for another commit (.dockerignore leaves out tests and docs).  A commit that has an
\* image is not taken back to an older one: base images only move on.
Build ==
  /\ phase = "build"
  /\ \/ /\ builds < MaxBuilds
        /\ builds' = builds + 1
        /\ tags' = [tags EXCEPT ![sha] = builds + 1]
        /\ sound' \in {sound, sound \cup {builds + 1}}
     \/ /\ \E s \in Shas :
             /\ tags[s] # None
             /\ tags[sha] # None => tags[s] >= tags[sha]
             /\ tags' = [tags EXCEPT ![sha] = tags[s]]
        /\ UNCHANGED <<builds, sound>>
  /\ phase' = "up"
  /\ UNCHANGED <<container, process, host, sha, prev, tries, pruning, green, undisturbed>>

Wanted(tag) == [tag |-> tag, image |-> tags[tag]]

\* Mutant of Up: the process of the container it replaces goes on serving.
UpBeside(tag) ==
  /\ tags[tag] # None
  /\ container' = Wanted(tag)
  /\ process' = IF process = "none" THEN "booting" ELSE process

\* Mutant of Up: a container with the right image name is left as it is.
UpByName(tag) ==
  /\ tags[tag] # None
  /\ IF container # None /\ container.tag = tag /\ process # "none"
     THEN UNCHANGED <<container, process>>
     ELSE container' = Wanted(tag) /\ process' = "booting"

\* TAG=<tag> docker compose up -d: a container that is up to date is left alone, any
\* other replaced.
Up(tag) ==
  /\ tags[tag] # None
  /\ IF container = Wanted(tag) /\ process # "none"
     THEN UNCHANGED <<container, process>>
     ELSE container' = Wanted(tag) /\ process' = "booting"

StartContainer ==
  /\ phase = "up"
  /\ Up(sha)
  /\ tries' = Tries
  /\ phase' = "gate"
  /\ UNCHANGED <<builds, tags, sound, host, sha, prev, pruning, green, undisturbed>>

\* Under "set -e" the script ends there, before the gate and without a roll-back.  The
\* container is as it was, gone, or new and not started.
UpFails ==
  /\ phase = "up" \/ (phase = "failed" /\ prev # None)
  /\ Exit
  /\ \/ UNCHANGED <<container, process>>
     \/ container' = None /\ process' = "none"
     \/ /\ container' = Wanted(IF phase = "up" THEN sha ELSE prev)
        /\ process' = "none"
  /\ undisturbed' = FALSE
  /\ UNCHANGED <<builds, tags, sound, host, green>>

\* The build fails, or the script is killed: what was done stays.
Interrupted ==
  /\ phase # "idle"
  /\ Exit
  /\ undisturbed' = (undisturbed /\ phase \notin {"gate", "failed"})
  /\ UNCHANGED <<docker, host, green>>

\* Whoever holds the port answers; healthz asks the disk and not the driver.
Answered == byHand \/ process = "serving"
Degraded == diskLow

\* curl -sf and grep.
Healthy == Answered /\ ~Degraded

Probe ==
  /\ phase = "gate"
  /\ IF Healthy
     THEN /\ phase' = "prune"
          /\ green' = container
          /\ undisturbed' = TRUE
          /\ UNCHANGED tries
     ELSE /\ tries' = tries - 1
          /\ phase' = IF tries = 1 THEN "failed" ELSE "gate"
          /\ UNCHANGED <<green, undisturbed>>
  /\ UNCHANGED <<docker, host, sha, prev, pruning>>

\* Mutant of RollBack: the image that has failed is started again.
RollBackToSha ==
  /\ phase = "failed"
  /\ IF prev = None THEN UNCHANGED <<container, process>> ELSE Up(sha)
  /\ Exit
  /\ UNCHANGED <<builds, tags, sound, host, green, undisturbed>>

\* Without a previous image the container is left for inspection.
RollBack ==
  /\ phase = "failed"
  /\ IF prev = None THEN UNCHANGED <<container, process>> ELSE Up(prev)
  /\ Exit
  /\ UNCHANGED <<builds, tags, sound, host, green, undisturbed>>

\* The lines of "docker images" that grep leaves: the tags but the new one, youngest
\* image first, and the tags of one image in any order.
Listings ==
  {lines \in SetToSeqs({s \in Shas \ {sha} : tags[s] # None}) :
     \A i, j \in DOMAIN lines : i < j => tags[lines[i]] >= tags[lines[j]]}

\* Mutant of Dropped: from the line after.
DroppedOneFewer(lines) == SubSeq(lines, KeepTags + 1, Len(lines))

\* tail -n +KEEP_TAGS prints from line KEEP_TAGS on.
Dropped(lines) == SubSeq(lines, KeepTags, Len(lines))

ListOld ==
  /\ phase = "prune"
  /\ \E lines \in Listings : doomed' = Dropped(lines)
  /\ phase' = "remove"
  /\ UNCHANGED <<docker, host, sha, prev, tries, refused, green, undisturbed>>

\* One "docker rmi" for each line.  What it says is thrown away, and a failure does not
\* keep xargs from the next line.
RemoveOld ==
  /\ phase = "remove"
  /\ doomed # <<>>
  /\ doomed' = Tail(doomed)
  /\ \/ tags' = [tags EXCEPT ![Head(doomed)] = None] /\ UNCHANGED refused
     \/ refused' = refused + 1 /\ UNCHANGED tags
  /\ UNCHANGED <<builds, sound, container, process, host, phase, sha, prev, tries, green,
                 undisturbed>>

\* "|| true": the script ends well even so.
Finish ==
  /\ phase = "remove"
  /\ doomed = <<>>
  /\ Exit
  /\ UNCHANGED <<docker, host, green, undisturbed>>

-----------------------------------------------------------------------------
(* The process of the container.                                           *)

\* lifespan: layout, sweep, driver, JWKS; only then is the port bound.  An image that is
\* not sound raises on the way, one whose port is taken exits, and "restart:
\* unless-stopped" has it boot again.
Boot ==
  /\ process = "booting"
  /\ container.image \in sound
  /\ ~byHand
  /\ process' = "serving"
  /\ UNCHANGED <<builds, tags, sound, container, host, script, green, undisturbed>>

Die ==
  /\ process = "serving"
  /\ process' = "booting"
  /\ UNCHANGED <<builds, tags, sound, container, host, script, green, undisturbed>>

-----------------------------------------------------------------------------
(* The host and its operators.                                             *)

DiskChanges ==
  /\ diskLow' = ~diskLow
  /\ UNCHANGED <<docker, byHand, script, green, undisturbed>>

\* "manual fallback: docker rm -f storage-service && ... run-service.sh".  Nothing keeps
\* operators from either command while a deployment runs.
RemoveContainer ==
  /\ container # None
  /\ container' = None
  /\ process' = "none"
  /\ undisturbed' = FALSE
  /\ UNCHANGED <<builds, tags, sound, host, script, green>>

\* Two processes cannot bind one port.
RunByHand ==
  /\ ~byHand
  /\ process # "serving"
  /\ byHand' = TRUE
  /\ UNCHANGED <<docker, diskLow, script, green, undisturbed>>

StopByHand ==
  /\ byHand
  /\ byHand' = FALSE
  /\ UNCHANGED <<docker, diskLow, script, green, undisturbed>>

Next ==
  \/ \E s \in Shas : Inspect(s)
  \/ Build \/ StartContainer \/ UpFails \/ Interrupted \/ Probe \/ RollBack
  \/ ListOld \/ RemoveOld \/ Finish
  \/ Boot \/ Die
  \/ DiskChanges \/ RemoveContainer \/ RunByHand \/ StopByHand

Spec == Init /\ [][Next]_vars

-----------------------------------------------------------------------------
(* Properties.                                                             *)

TypeOK ==
  /\ builds \in 0..MaxBuilds
  /\ tags \in [Shas -> 1..builds \cup {None}]
  /\ sound \subseteq 1..builds
  /\ container \in Containers \cup {None}
  /\ process \in {"none", "booting", "serving"}
  /\ container = None => process = "none"
  /\ process = "serving" => container.image \in sound /\ ~byHand
  /\ byHand \in BOOLEAN /\ diskLow \in BOOLEAN
  /\ phase \in {"idle", "build", "up", "gate", "failed", "prune", "remove"}
  /\ sha \in Shas \cup {None}
  /\ prev \in Shas \cup {None}
  /\ phase = "idle" <=> sha = None
  /\ tries \in 0..Tries
  /\ phase = "gate" => tries > 0
  /\ doomed \in Seq(Shas) /\ refused \in Nat
  /\ phase # "remove" => doomed = <<>> /\ refused = 0
  /\ green \in Containers \cup {None}
  /\ undisturbed \in BOOLEAN

\* A deployment is declared healthy only by an answer of the image it has built: the
\* container it replaces cannot give it any more.  The service run by hand can, though.
HealthyIsTheNewBuild ==
  [][phase = "gate" /\ phase' = "prune" =>
       \/ byHand
       \/ container = Wanted(sha) /\ container.image \in sound]_vars

\* After any number of failed deployments the container still is, or is again, what was
\* declared healthy last, unless an "up -d" failed or somebody interfered.  The roll-back
\* goes by name, so a SHA that has been built anew is started anew.
LastHealthyRuns ==
  phase = "idle" /\ undisturbed /\ green # None =>
    /\ container.tag = green.tag
    /\ tags[green.tag] # None
    /\ container.image = green.image \/ tags[green.tag] # green.image

\* Whichever removals fail, and wherever the script is killed: no tag goes that is new or
\* names the container, nor one of the KEEP_TAGS - 1 youngest others.
SparesTheLast ==
  \A s \in Shas : tags[s] # None /\ tags'[s] = None =>
    /\ s # sha
    /\ container # None => container.tag # s
    /\ Cardinality({t \in Shas \ {sha} : tags'[t] # None /\ tags'[t] >= tags[s]}) >= KeepTags - 1

\* When every line has had its turn, no more than KEEP_TAGS are left, but for those that
\* "docker rmi" refused to remove.
DropsTheRest ==
  phase = "remove" /\ phase' = "idle" /\ doomed = <<>> =>
    Cardinality({s \in Shas : tags[s] # None}) <= KeepTags + refused

\* "keep the last $KEEP_TAGS images for manual rollback, drop the rest": after any history
\* of builds, roll-backs, removals that failed and deployments that were killed.
PruneKeepsTheLast == [][SparesTheLast /\ DropsTheRest]_vars

=============================================================================
