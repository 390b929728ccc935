-------------------------- MODULE DeploymentProofs --------------------------
(***************************************************************************)
(* Theorems about Deployment, for any number of commits, images and rounds *)
(* of the health gate, and whatever the host and its operators do.         *)
(***************************************************************************)
EXTENDS Deployment, FiniteSetTheorems, SequenceTheorems, TLAPS

-----------------------------------------------------------------------------
(* The inductive invariant.                                                *)

\* The name of what was declared healthy last has not gone to an older image.
NameInPlace == tags[green.tag] # None /\ tags[green.tag] >= green.image

\* What was declared healthy last is there, by name at least.
Standing ==
  /\ container # None
  /\ container.tag = green.tag
  /\ NameInPlace
  /\ container.image = green.image \/ tags[green.tag] > green.image

\* While a deployment goes on it is there, or there to return to.
GreenInPlace ==
  undisturbed /\ green # None =>
    /\ phase \in {"idle", "build", "up", "prune", "remove"} => Standing
    /\ phase \in {"build", "up", "gate", "failed"} => prev = green.tag
    /\ phase \in {"gate", "failed"} => NameInPlace

\* From its start to the end the container is the one the deployment has made, if there
\* still is one.
NewInPlace ==
  phase \in {"gate", "failed", "prune", "remove"} =>
    container \in {None, Wanted(sha)} /\ tags[sha] # None

\* No container is made of an image yet to come.
ImagesBuilt ==
  /\ container # None => container.image \in 1..builds
  /\ green # None => green.image \in 1..builds

\* What a roll-back may have to start has its name.
TagsInPlace ==
  /\ container # None => tags[container.tag] # None
  /\ phase \in {"build", "up", "gate", "failed"} /\ prev # None => tags[prev] # None
  /\ phase = "up" => tags[sha] # None

\* The tags to be removed are there, are others than the new one, and stand on different
\* lines; enough tags as young are not among them.
DoomedInPlace ==
  doomed # <<>> =>
    /\ \A i \in DOMAIN doomed : doomed[i] # sha /\ tags[doomed[i]] # None
    /\ \A i, j \in DOMAIN doomed : i # j => doomed[i] # doomed[j]
    /\ \E first \in SUBSET (Shas \ {sha}) :
         /\ Cardinality(first) >= KeepTags - 1
         /\ \A t \in first : /\ tags[t] # None
                             /\ \A i \in DOMAIN doomed : t # doomed[i] /\ tags[t] >= tags[doomed[i]]

\* What is left to be removed is all that is too much.
RestInPlace ==
  phase = "remove" =>
    Cardinality({s \in Shas : tags[s] # None}) <= KeepTags + refused + Len(doomed)

IInv ==
  /\ TypeOK
  /\ TagsInPlace
  /\ GreenInPlace
  /\ NewInPlace
  /\ ImagesBuilt
  /\ DoomedInPlace
  /\ RestInPlace

Phases == {"idle", "build", "up", "gate", "failed", "prune", "remove"}

-----------------------------------------------------------------------------
LEMMA WantedIsContainer ==
  ASSUME TypeOK, NEW t \in Shas, tags[t] # None
  PROVE  /\ Wanted(t) \in Containers /\ Wanted(t) # None
         /\ Wanted(t).tag = t /\ Wanted(t).image = tags[t] /\ tags[t] \in 1..builds
<1>1. tags[t] \in 1..builds /\ 1..builds \subseteq Images
  BY NumbersAssumption DEF TypeOK, Images
<1>2. Wanted(t) \in Containers
  BY <1>1 DEF Wanted, Containers
<1> QED BY <1>1, <1>2, ContainersAssumption DEF Wanted

LEMMA GreenNumbers ==
  ASSUME IInv, green # None, tags[green.tag] # None
  PROVE  tags[green.tag] \in Nat /\ green.image \in Nat
<1>1. green.tag \in Shas /\ green.image \in 1..builds
  BY DEF IInv, TypeOK, Containers, ImagesBuilt
<1>2. tags[green.tag] \in 1..builds /\ builds \in Nat
  BY <1>1, NumbersAssumption DEF IInv, TypeOK
<1> QED BY <1>1, <1>2

\* What TypeOK says of the script alone.
ScriptOK ==
  /\ phase \in Phases
  /\ sha \in Shas \cup {None}
  /\ prev \in Shas \cup {None}
  /\ phase = "idle" <=> sha = None
  /\ tries \in 0..Tries
  /\ phase = "gate" => tries > 0
  /\ doomed \in Seq(Shas) /\ refused \in Nat
  /\ phase # "remove" => doomed = <<>> /\ refused = 0

\* And of the rest.
DockerOK ==
  /\ builds \in 0..MaxBuilds
  /\ tags \in [Shas -> 1..builds \cup {None}]
  /\ sound \subseteq 1..builds
  /\ container \in Containers \cup {None}
  /\ process \in {"none", "booting", "serving"}
  /\ container = None => process = "none"
  /\ process = "serving" => container.image \in sound /\ ~byHand
  /\ byHand \in BOOLEAN /\ diskLow \in BOOLEAN
  /\ green \in Containers \cup {None}
  /\ undisturbed \in BOOLEAN

LEMMA TypeParts == TypeOK <=> ScriptOK /\ DockerOK
BY DEF TypeOK, ScriptOK, DockerOK, Phases

LEMMA TypePartsNext == TypeOK' <=> ScriptOK' /\ DockerOK'
BY DEF TypeOK, ScriptOK, DockerOK, Phases

\* Nothing is asked of the removals before they begin.
LEMMA NothingDoomed ==
  /\ IInv /\ phase # "remove" => doomed = <<>> /\ refused = 0
  /\ doomed' = <<>> /\ phase' # "remove" => DoomedInPlace' /\ RestInPlace'
BY DEF IInv, TypeOK, DoomedInPlace, RestInPlace

LEMMA ExitOK ==
  ASSUME Exit
  PROVE  /\ ScriptOK' /\ NewInPlace' /\ phase' = "idle" /\ DoomedInPlace' /\ RestInPlace'
         /\ (container' # None => tags'[container'.tag] # None) => TagsInPlace'
<1>1. /\ phase' = "idle" /\ sha' = None /\ prev' = None /\ tries' = 0
      /\ doomed' = <<>> /\ refused' = 0
  BY DEF Exit
<1>2. 0 \in 0..Tries /\ <<>> \in Seq(Shas)
  BY NumbersAssumption
<1>3. ScriptOK'
  BY <1>1, <1>2 DEF ScriptOK, Phases
<1>4. NewInPlace' /\ ((container' # None => tags'[container'.tag] # None) => TagsInPlace')
  BY <1>1 DEF NewInPlace, TagsInPlace
<1>5. DoomedInPlace' /\ RestInPlace'
  BY <1>1, NothingDoomed
<1> QED BY <1>1, <1>3, <1>4, <1>5

LEMMA InitInv == Init => IInv
<1> SUFFICES ASSUME Init PROVE IInv
  OBVIOUS
<1>1. ScriptOK
  BY NumbersAssumption DEF Init, ScriptOK, Phases
<1>2. DockerOK
  <2>1. builds \in 0..MaxBuilds /\ tags \in [Shas -> 1..builds \cup {None}]
    BY NumbersAssumption DEF Init
  <2>2. /\ sound \subseteq 1..builds /\ container \in Containers \cup {None}
        /\ process \in {"none", "booting", "serving"} /\ process # "serving"
        /\ container = None => process = "none"
    BY DEF Init
  <2>3. byHand \in BOOLEAN /\ diskLow \in BOOLEAN /\ green \in Containers \cup {None}
        /\ undisturbed \in BOOLEAN
    BY DEF Init
  <2> QED BY <2>1, <2>2, <2>3 DEF DockerOK
<1>3. GreenInPlace /\ NewInPlace /\ ImagesBuilt /\ TagsInPlace
  BY DEF Init, GreenInPlace, NewInPlace, ImagesBuilt, TagsInPlace
<1>4. DoomedInPlace /\ RestInPlace
  BY DEF Init, DoomedInPlace, RestInPlace
<1> QED BY <1>1, <1>2, <1>3, <1>4, TypeParts DEF IInv

-----------------------------------------------------------------------------
(* The script.                                                             *)

LEMMA InspectInv ==
  ASSUME IInv, NEW s \in Shas, Inspect(s)
  PROVE  IInv'
<1>1. /\ phase = "idle" /\ phase' = "build" /\ sha' = s
      /\ prev' = IF container = None THEN None ELSE container.tag
      /\ UNCHANGED <<builds, tags, sound, container, process, byHand, diskLow, tries, doomed,
                     refused, green, undisturbed>>
  BY DEF Inspect, docker, host, pruning
<1>2. prev' \in Shas \cup {None}
  BY <1>1 DEF IInv, TypeOK, Containers
<1>3. ScriptOK'
  BY <1>1, <1>2, NoneAssumption DEF IInv, TypeOK, ScriptOK, Phases
<1>4. DockerOK'
  BY <1>1, TypeParts DEF IInv, DockerOK
<1>5. GreenInPlace'
  BY <1>1 DEF IInv, GreenInPlace, Standing, NameInPlace
<1>6. NewInPlace' /\ ImagesBuilt'
  BY <1>1 DEF IInv, NewInPlace, ImagesBuilt
<1>7. TagsInPlace'
  <2>1. container # None => tags[container.tag] # None
    BY DEF IInv, TagsInPlace
  <2>2. prev' # None => tags[prev'] # None
    BY <1>1, <2>1
  <2> QED BY <1>1, <2>1, <2>2 DEF TagsInPlace
<1>8. DoomedInPlace' /\ RestInPlace'
  BY <1>1, NothingDoomed
<1> QED BY <1>3, <1>4, <1>5, <1>6, <1>7, <1>8, TypePartsNext DEF IInv

\* A new image under the name of the healthy one is not the healthy one.
LEMMA BuildInv == IInv /\ Build => IInv'
<1> SUFFICES ASSUME IInv, Build PROVE IInv'
  OBVIOUS
<1>1. /\ phase = "build" /\ phase' = "up" /\ sha \in Shas
      /\ UNCHANGED <<container, process, byHand, diskLow, sha, prev, tries, doomed, refused,
                     green, undisturbed>>
  BY DEF Build, host, pruning, IInv, TypeOK
<1>2. ScriptOK'
  BY <1>1, NoneAssumption DEF IInv, TypeOK, ScriptOK, Phases
<1>3. PICK i \in 1..builds' :
        /\ builds' \in {builds, builds + 1} /\ builds' \in 0..MaxBuilds
        /\ tags' = [tags EXCEPT ![sha] = i]
        /\ tags[sha] # None => i >= tags[sha]
        /\ sound \subseteq sound' /\ sound' \subseteq 1..builds'
  <2>1. CASE /\ builds < MaxBuilds /\ builds' = builds + 1
             /\ tags' = [tags EXCEPT ![sha] = builds + 1]
             /\ sound' \in {sound, sound \cup {builds + 1}}
    <3>1. builds \in Nat /\ builds' \in 0..MaxBuilds /\ builds + 1 \in 1..builds'
      BY <2>1, NumbersAssumption DEF IInv, TypeOK
    <3>2. sound \subseteq 1..builds /\ 1..builds \subseteq 1..builds'
      BY <2>1, <3>1 DEF IInv, TypeOK
    <3>3. tags[sha] # None => builds + 1 >= tags[sha]
      BY <1>1, <3>1 DEF IInv, TypeOK
    <3> QED BY <2>1, <3>1, <3>2, <3>3
  <2>2. CASE /\ \E s \in Shas :
                  /\ tags[s] # None
                  /\ tags[sha] # None => tags[s] >= tags[sha]
                  /\ tags' = [tags EXCEPT ![sha] = tags[s]]
             /\ UNCHANGED <<builds, sound>>
    <3>1. \A s \in Shas : tags[s] # None => tags[s] \in 1..builds'
      BY <2>2 DEF IInv, TypeOK
    <3>2. builds' \in 0..MaxBuilds /\ sound' \subseteq 1..builds'
      BY <2>2 DEF IInv, TypeOK
    <3> QED BY <2>2, <3>1, <3>2
  <2> QED BY <2>1, <2>2 DEF Build
<1>4. \A t \in Shas : tags'[t] = IF t = sha THEN i ELSE tags[t]
  BY <1>3 DEF IInv, TypeOK
<1>5. /\ builds \in Nat /\ 1..builds \subseteq 1..builds'
      /\ i # None /\ \A t \in Shas : tags[t] # None => tags[t] \in 1..builds
  <2>1. builds \in Nat /\ 1..builds \subseteq 1..builds' /\ 1..builds' \subseteq 0..MaxBuilds
    BY <1>3, NumbersAssumption DEF IInv, TypeOK
  <2>2. i # None
    BY <1>3, <2>1, NoneAssumption
  <2> QED BY <2>1, <2>2 DEF IInv, TypeOK
<1>6. DockerOK'
  <2>1. tags' \in [Shas -> 1..builds' \cup {None}]
    BY <1>3, <1>5 DEF IInv, TypeOK
  <2> QED BY <1>1, <1>3, <2>1, TypeParts DEF IInv, DockerOK
<1>7. ImagesBuilt' /\ NewInPlace'
  BY <1>1, <1>5 DEF IInv, ImagesBuilt, NewInPlace
<1>8. TagsInPlace'
  <2>1. /\ container # None => container.tag \in Shas
        /\ prev # None => prev \in Shas
    BY DEF IInv, TypeOK, Containers
  <2> QED BY <1>1, <1>4, <1>5, <2>1 DEF IInv, TagsInPlace
<1>9. GreenInPlace'
  <2>1. ASSUME undisturbed, green # None PROVE Standing' /\ prev = green.tag
    <3>1. Standing /\ prev = green.tag /\ green.image \in 1..builds
      BY <1>1, <2>1 DEF IInv, GreenInPlace, ImagesBuilt
    <3>2. green.tag \in Shas
      BY <2>1 DEF IInv, TypeOK, Containers
    <3>3. tags'[green.tag] = tags[green.tag] \/ (tags'[green.tag] = i /\ i >= tags[green.tag])
      BY <1>3, <1>4, <3>1, <3>2 DEF Standing, NameInPlace
    <3>4. tags'[green.tag] # None /\ tags'[green.tag] >= tags[green.tag]
      BY <1>5, <3>1, <3>2, <3>3 DEF Standing, NameInPlace
    <3>5. /\ tags[green.tag] \in Nat /\ tags'[green.tag] \in Nat /\ green.image \in Nat
          /\ tags[green.tag] >= green.image
      BY <1>3, <1>5, <3>1, <3>2, <3>3 DEF Standing, NameInPlace
    <3>6. NameInPlace'
      BY <1>1, <3>4, <3>5 DEF NameInPlace
    <3>7. tags[green.tag] > green.image => tags'[green.tag] > green.image
      BY <3>4, <3>5
    <3> QED BY <1>1, <3>1, <3>6, <3>7 DEF Standing, NameInPlace
  <2>2. undisturbed' = undisturbed /\ green' = green /\ phase' = "up" /\ prev' = prev
    BY <1>1
  <2> QED BY <2>1, <2>2 DEF GreenInPlace
<1>10. DoomedInPlace' /\ RestInPlace'
  BY <1>1, NothingDoomed
<1> QED BY <1>2, <1>6, <1>7, <1>8, <1>9, <1>10, TypePartsNext DEF IInv

\* What "up -d" leaves, whichever container it was.
LEMMA UpOK ==
  ASSUME IInv, NEW t \in Shas, Up(t),
         UNCHANGED <<builds, tags, sound, byHand, diskLow, green>>, undisturbed' \in BOOLEAN
  PROVE  DockerOK' /\ ImagesBuilt' /\ container' = Wanted(t) /\ tags[t] # None
<1>1. /\ tags[t] # None /\ container' = Wanted(t)
      /\ \/ process' = "booting"
         \/ container' = container /\ process' = process
  BY DEF Up
<1>2. Wanted(t) \in Containers /\ Wanted(t) # None /\ Wanted(t).image \in 1..builds
  BY <1>1, WantedIsContainer DEF IInv
<1>3. DockerOK'
  BY <1>1, <1>2, TypeParts DEF IInv, DockerOK
<1>4. ImagesBuilt'
  BY <1>1, <1>2 DEF IInv, ImagesBuilt
<1> QED BY <1>1, <1>3, <1>4

LEMMA StartContainerInv == IInv /\ StartContainer => IInv'
<1> SUFFICES ASSUME IInv, StartContainer PROVE IInv'
  OBVIOUS
<1>1. /\ phase = "up" /\ Up(sha) /\ tries' = Tries /\ phase' = "gate"
      /\ UNCHANGED <<builds, tags, sound, byHand, diskLow, sha, prev, doomed, refused, green,
                     undisturbed>>
  BY DEF StartContainer, host, pruning
<1>2. sha \in Shas /\ undisturbed \in BOOLEAN
  BY <1>1 DEF IInv, TypeOK
<1>3. DockerOK' /\ ImagesBuilt' /\ container' = Wanted(sha) /\ tags[sha] # None
  BY <1>1, <1>2, UpOK
<1>4. ScriptOK'
  BY <1>1, <1>2, NoneAssumption, NumbersAssumption DEF IInv, TypeOK, ScriptOK, Phases
<1>5. NewInPlace'
  BY <1>1, <1>3 DEF NewInPlace, Wanted
<1>6. GreenInPlace'
  <2>1. /\ undisturbed' = undisturbed /\ green' = green /\ phase' = "gate" /\ prev' = prev
        /\ tags' = tags
    BY <1>1
  <2>2. undisturbed /\ green # None => prev = green.tag /\ NameInPlace
    BY <1>1 DEF IInv, GreenInPlace, Standing, NameInPlace
  <2> QED BY <2>1, <2>2 DEF GreenInPlace, NameInPlace
<1>7. TagsInPlace'
  <2>1. container'.tag = sha
    BY <1>3 DEF Wanted
  <2>2. phase' = "gate" /\ tags' = tags /\ prev' = prev
    BY <1>1
  <2>3. prev # None => tags[prev] # None
    BY <1>1 DEF IInv, TagsInPlace
  <2> QED BY <1>3, <2>1, <2>2, <2>3 DEF TagsInPlace
<1>8. DoomedInPlace' /\ RestInPlace'
  BY <1>1, NothingDoomed
<1> QED BY <1>3, <1>4, <1>5, <1>6, <1>7, <1>8, TypePartsNext DEF IInv

LEMMA UpFailsInv == IInv /\ UpFails => IInv'
<1> SUFFICES ASSUME IInv, UpFails PROVE IInv'
  OBVIOUS
<1>1. /\ Exit /\ undisturbed' = FALSE
      /\ UNCHANGED <<builds, tags, sound, byHand, diskLow, green>>
  BY DEF UpFails, host
<1>2. ScriptOK' /\ NewInPlace' /\ GreenInPlace' /\ DoomedInPlace' /\ RestInPlace'
  BY <1>1, ExitOK DEF GreenInPlace
<1>3. PICK t \in Shas \cup {None} :
        /\ t # None => tags[t] # None
        /\ \/ UNCHANGED <<container, process>>
           \/ container' = None /\ process' = "none"
           \/ container' = Wanted(t) /\ process' = "none" /\ t # None
  BY NoneAssumption DEF UpFails, IInv, TypeOK, TagsInPlace
<1>4. /\ container' \in Containers \cup {None} /\ process' \in {"none", "booting", "serving"}
      /\ container' = None => process' = "none"
      /\ process' = "serving" => container'.image \in sound /\ ~byHand
      /\ container' # None => container'.image \in 1..builds /\ tags[container'.tag] # None
  <2>1. CASE UNCHANGED <<container, process>>
    BY <2>1 DEF IInv, TypeOK, ImagesBuilt, TagsInPlace
  <2>2. CASE container' = None /\ process' = "none"
    BY <2>2
  <2>3. CASE container' = Wanted(t) /\ process' = "none" /\ t # None
    BY <1>3, <2>3, WantedIsContainer DEF IInv
  <2> QED BY <1>3, <2>1, <2>2, <2>3
<1>5. DockerOK'
  <2>1. undisturbed' \in BOOLEAN
    BY <1>1
  <2> QED BY <1>1, <1>4, <2>1, TypeParts DEF IInv, DockerOK
<1>6. ImagesBuilt'
  BY <1>1, <1>4 DEF IInv, ImagesBuilt
<1>7. TagsInPlace'
  BY <1>1, <1>4, ExitOK
<1> QED BY <1>2, <1>5, <1>6, <1>7, TypePartsNext DEF IInv

LEMMA InterruptedInv == IInv /\ Interrupted => IInv'
<1> SUFFICES ASSUME IInv, Interrupted PROVE IInv'
  OBVIOUS
<1>1. /\ Exit /\ phase # "idle" /\ undisturbed' = (undisturbed /\ phase \notin {"gate", "failed"})
      /\ UNCHANGED <<builds, tags, sound, container, process, byHand, diskLow, green>>
  BY DEF Interrupted, docker, host
<1>2. DockerOK' /\ ImagesBuilt'
  <2>1. undisturbed' \in BOOLEAN
    BY <1>1
  <2> QED BY <1>1, <2>1, TypeParts DEF IInv, DockerOK, ImagesBuilt
<1>3. /\ ScriptOK' /\ NewInPlace' /\ TagsInPlace' /\ phase' = "idle"
      /\ DoomedInPlace' /\ RestInPlace'
  BY <1>1, ExitOK DEF IInv, TagsInPlace
<1>4. GreenInPlace'
  <2>1. phase \in {"build", "up", "gate", "failed", "prune", "remove"}
    BY <1>1 DEF IInv, TypeOK
  <2>2. undisturbed' => undisturbed /\ phase \notin {"gate", "failed"}
    BY <1>1
  <2>3. UNCHANGED <<green, container, tags>>
    BY <1>1
  <2>4. undisturbed' /\ green # None => Standing
    BY <2>1, <2>2 DEF IInv, GreenInPlace
  <2> QED BY <1>3, <2>3, <2>4 DEF GreenInPlace, Standing, NameInPlace
<1> QED BY <1>2, <1>3, <1>4, TypePartsNext DEF IInv

\* An answer makes the new container the healthy one, or none if somebody has removed it
\* and answers by hand.
LEMMA ProbeInv == IInv /\ Probe => IInv'
<1> SUFFICES ASSUME IInv, Probe PROVE IInv'
  OBVIOUS
<1>1. /\ phase = "gate"
      /\ UNCHANGED <<builds, tags, sound, container, process, byHand, diskLow, sha, prev,
                     doomed, refused>>
  BY DEF Probe, docker, host, pruning
<1>2. container \in {None, Wanted(sha)} /\ tags[sha] # None /\ sha \in Shas
  BY <1>1 DEF IInv, NewInPlace, TypeOK
<1>3. container # None => container \in Containers /\ container.tag = sha
  BY <1>2, WantedIsContainer DEF IInv
<1>4. NewInPlace' /\ DoomedInPlace' /\ RestInPlace' /\ phase' # "remove"
  <2>1. container' \in {None, Wanted(sha)'} /\ tags'[sha'] # None
    BY <1>1, <1>2 DEF Wanted
  <2>2. phase' # "remove"
    BY <1>1 DEF Probe
  <2> QED BY <1>1, <2>1, <2>2, NothingDoomed DEF NewInPlace
<1>5. CASE Healthy
  <2>1. phase' = "prune" /\ green' = container /\ undisturbed' = TRUE /\ tries' = tries
    BY <1>5 DEF Probe
  <2>2. ScriptOK'
    BY <1>1, <2>1 DEF IInv, TypeOK, ScriptOK, Phases
  <2>3. DockerOK'
    <3>1. undisturbed' \in BOOLEAN
      BY <2>1
    <3> QED BY <1>1, <1>3, <2>1, <3>1, TypeParts DEF IInv, DockerOK
  <2>4. GreenInPlace'
    <3> SUFFICES ASSUME container # None PROVE GreenInPlace'
      BY <2>1 DEF GreenInPlace
    <3>1. container.image = tags[sha] /\ tags[sha] \in 1..builds /\ builds \in Nat
      BY <1>2, WantedIsContainer, NumbersAssumption DEF IInv, TypeOK
    <3>2. tags[sha] >= container.image
      BY <3>1
    <3>3. Standing' /\ phase' = "prune"
      BY <1>1, <1>2, <1>3, <2>1, <3>2 DEF Standing, NameInPlace
    <3> QED BY <3>3 DEF GreenInPlace
  <2>5. ImagesBuilt'
    BY <1>1, <2>1 DEF IInv, ImagesBuilt
  <2>6. TagsInPlace'
    BY <1>1, <1>2, <1>3, <2>1 DEF TagsInPlace
  <2> QED BY <1>4, <2>2, <2>3, <2>4, <2>5, <2>6, TypePartsNext DEF IInv
<1>6. CASE ~Healthy
  <2>1. /\ tries' = tries - 1 /\ phase' = IF tries = 1 THEN "failed" ELSE "gate"
        /\ UNCHANGED <<green, undisturbed>>
    BY <1>6 DEF Probe
  <2>2. ScriptOK'
    BY <1>1, <1>2, <2>1, NumbersAssumption, NoneAssumption DEF IInv, TypeOK, ScriptOK, Phases
  <2>3. DockerOK'
    BY <1>1, <2>1, TypeParts DEF IInv, DockerOK
  <2>4. GreenInPlace'
    <3>1. undisturbed /\ green # None => prev = green.tag /\ NameInPlace
      BY <1>1 DEF IInv, GreenInPlace
    <3>2. phase' \in {"failed", "gate"} /\ UNCHANGED <<green, undisturbed, prev, tags>>
      BY <1>1, <2>1
    <3> QED BY <3>1, <3>2 DEF GreenInPlace, NameInPlace
  <2>5. ImagesBuilt'
    BY <1>1, <2>1 DEF IInv, ImagesBuilt
  <2>6. TagsInPlace'
    <3>1. phase' \in {"failed", "gate"} /\ UNCHANGED <<container, prev, tags>>
      BY <1>1, <2>1
    <3>2. prev # None => tags[prev] # None
      BY <1>1 DEF IInv, TagsInPlace
    <3> QED BY <1>2, <1>3, <3>1, <3>2 DEF TagsInPlace
  <2> QED BY <1>4, <2>2, <2>3, <2>4, <2>5, <2>6, TypePartsNext DEF IInv
<1> QED BY <1>5, <1>6

\* Nobody who was healthy is returned to by another name than its own.
LEMMA RollBackInv == IInv /\ RollBack => IInv'
<1> SUFFICES ASSUME IInv, RollBack PROVE IInv'
  OBVIOUS
<1>1. /\ phase = "failed" /\ Exit
      /\ UNCHANGED <<builds, tags, sound, byHand, diskLow, green, undisturbed>>
  BY DEF RollBack, host
<1>2. ScriptOK' /\ NewInPlace' /\ phase' = "idle" /\ DoomedInPlace' /\ RestInPlace'
  BY <1>1, ExitOK
<1>3. CASE prev = None
  <2>1. UNCHANGED <<container, process>>
    BY <1>3 DEF RollBack
  <2>2. DockerOK' /\ ImagesBuilt'
    BY <1>1, <2>1, TypeParts DEF IInv, DockerOK, ImagesBuilt
  <2>3. TagsInPlace'
    BY <1>1, <2>1, ExitOK DEF IInv, TagsInPlace
  <2>4. ~(undisturbed /\ green # None)
    <3>1. green # None => green.tag \in Shas
      BY DEF IInv, TypeOK, Containers
    <3> QED BY <1>1, <1>3, <3>1, NoneAssumption DEF IInv, GreenInPlace
  <2>5. GreenInPlace'
    <3>1. UNCHANGED <<green, undisturbed>>
      BY <1>1
    <3> QED BY <2>4, <3>1 DEF GreenInPlace
  <2> QED BY <1>2, <2>2, <2>3, <2>5, TypePartsNext DEF IInv
<1>4. CASE prev # None
  <2>1. prev \in Shas /\ Up(prev) /\ undisturbed' \in BOOLEAN
    BY <1>1, <1>4 DEF RollBack, IInv, TypeOK
  <2>2. DockerOK' /\ ImagesBuilt' /\ container' = Wanted(prev) /\ tags[prev] # None
    BY <1>1, <2>1, UpOK
  <2>3. /\ container' # None /\ container'.tag = prev /\ container'.image = tags[prev]
    BY <2>1, <2>2, WantedIsContainer DEF IInv
  <2>4. TagsInPlace'
    BY <1>1, <2>2, <2>3, ExitOK
  <2>5. GreenInPlace'
    <3>1. undisturbed /\ green # None => prev = green.tag
      BY <1>1 DEF IInv, GreenInPlace
    <3>2. UNCHANGED <<green, undisturbed, tags>>
      BY <1>1
    <3>3. ASSUME undisturbed, green # None PROVE Standing'
      <4>1. NameInPlace /\ tags[green.tag] \in Nat /\ green.image \in Nat
        BY <1>1, <3>3, GreenNumbers DEF IInv, GreenInPlace, NameInPlace
      <4>2. tags[green.tag] = green.image \/ tags[green.tag] > green.image
        BY <4>1 DEF NameInPlace
      <4>3. NameInPlace'
        BY <3>2, <4>1 DEF NameInPlace
      <4> QED BY <2>3, <3>1, <3>2, <3>3, <4>2, <4>3 DEF Standing
    <3> QED BY <1>2, <3>2, <3>3 DEF GreenInPlace
  <2> QED BY <1>2, <2>2, <2>4, <2>5, TypePartsNext DEF IInv
<1> QED BY <1>3, <1>4

-----------------------------------------------------------------------------
(* The removals.                                                           *)

\* What "docker images" lists: every tag but the new one once, youngest image first.
Others == {s \in Shas \ {sha} : tags[s] # None}

LEMMA ListingFacts ==
  ASSUME NEW lines \in Listings
  PROVE  /\ IsFiniteSet(Others) /\ Cardinality(Others) \in Nat
         /\ lines \in [1..Cardinality(Others) -> Others]
         /\ \A i, j \in 1..Cardinality(Others) : i # j => lines[i] # lines[j]
         /\ \A i, j \in 1..Cardinality(Others) : i < j => tags[lines[i]] >= tags[lines[j]]
         /\ lines \in Seq(Others) /\ Len(lines) = Cardinality(Others)
<1>1. IsFiniteSet(Others)
  BY CommitsAssumption, FS_Subset DEF Others
<1>2. Cardinality(Others) \in Nat
  BY <1>1, FS_CardinalityType
<1>3. lines \in SetToSeqs(Others)
  BY DEF Listings, Others
<1>4. lines \in [1..Cardinality(Others) -> Others]
  BY <1>3 DEF SetToSeqs
<1>5. \A i, j \in 1..Cardinality(Others) : i # j => lines[i] # lines[j]
  BY <1>3 DEF SetToSeqs
<1>6. DOMAIN lines = 1..Cardinality(Others)
  BY <1>4
<1>7. \A i, j \in DOMAIN lines : i < j => tags[lines[i]] >= tags[lines[j]]
  BY DEF Listings
<1>8. lines \in Seq(Others) /\ Len(lines) = Cardinality(Others)
  BY <1>2, <1>4, <1>6
<1> QED BY <1>1, <1>2, <1>4, <1>5, <1>6, <1>7, <1>8

\* The lines from KEEP_TAGS on.
LEMMA DroppedFacts ==
  ASSUME NEW lines \in Listings
  PROVE  /\ Dropped(lines) \in Seq(Others)
         /\ Len(Dropped(lines)) = IF KeepTags <= Len(lines) THEN Len(lines) - KeepTags + 1 ELSE 0
         /\ \A i \in 1..Len(Dropped(lines)) : /\ KeepTags + i - 1 \in KeepTags..Len(lines)
                                              /\ Dropped(lines)[i] = lines[KeepTags + i - 1]
<1>1. lines \in Seq(Others) /\ Len(lines) \in Nat /\ KeepTags \in Nat \ {0}
  BY ListingFacts, NumbersAssumption
<1>2. \A i \in KeepTags..Len(lines) : lines[i] \in Others
  BY <1>1
<1>3. /\ Dropped(lines) \in Seq(Others)
      /\ Len(Dropped(lines)) = IF KeepTags <= Len(lines) THEN Len(lines) - KeepTags + 1 ELSE 0
      /\ \A i \in 1..(Len(lines) - KeepTags + 1) : Dropped(lines)[i] = lines[KeepTags + i - 1]
  BY <1>1, <1>2, SubSeqProperties DEF Dropped
<1> QED BY <1>1, <1>3

\* Lines without repetition are as many tags.
LEMMA FirstLines ==
  ASSUME NEW m \in Nat, NEW f, \A i, j \in 1..m : i # j => f[i] # f[j]
  PROVE  Cardinality({f[i] : i \in 1..m}) = m
<1> DEFINE first == {f[i] : i \in 1..m}
           g == [i \in 1..m |-> f[i]]
<1>1. g \in [1..m -> first]
  OBVIOUS
<1>2. \A i, j \in 1..m : i # j => g[i] # g[j]
  OBVIOUS
<1>3. \A s \in first : \E i \in 1..m : g[i] = s
  OBVIOUS
<1> HIDE DEF g, first
<1>4. g \in Bijection(1..m, first)
  BY <1>1, <1>2, <1>3 DEF Bijection, Injection, Surjection, IsInjective
<1>5. ExistsBijection(1..m, first)
  BY <1>4 DEF ExistsBijection
<1>6. IsFiniteSet(1..m) /\ Cardinality(1..m) = m
  BY FS_Interval
<1>7. Cardinality(first) = m
  BY <1>5, <1>6, FS_Bijection
<1> QED BY <1>7 DEF first

LEMMA ListOldInv == IInv /\ ListOld => IInv'
<1> SUFFICES ASSUME IInv, ListOld PROVE IInv'
  OBVIOUS
<1> DEFINE had == {s \in Shas : tags[s] # None}
           n == Cardinality(Others)
<1>1. /\ phase = "prune" /\ phase' = "remove"
      /\ UNCHANGED <<builds, tags, sound, container, process, byHand, diskLow, sha, prev, tries,
                     refused, green, undisturbed>>
  BY DEF ListOld, docker, host
<1>2. PICK lines \in Listings : doomed' = Dropped(lines)
  BY DEF ListOld
<1>3. /\ n \in Nat /\ Len(lines) = n /\ IsFiniteSet(Others) /\ lines \in [1..n -> Others]
      /\ \A i, j \in 1..n : i # j => lines[i] # lines[j]
      /\ \A i, j \in 1..n : i < j => tags[lines[i]] >= tags[lines[j]]
  BY ListingFacts
<1> HIDE DEF n
<1>4. /\ doomed' \in Seq(Others)
      /\ Len(doomed') = IF KeepTags <= n THEN n - KeepTags + 1 ELSE 0
      /\ \A i \in 1..Len(doomed') : /\ KeepTags + i - 1 \in KeepTags..n
                                    /\ doomed'[i] = lines[KeepTags + i - 1]
  BY <1>2, <1>3, DroppedFacts
<1>5. tags[sha] # None /\ sha \in Shas /\ container \in {None, Wanted(sha)}
  BY <1>1 DEF IInv, NewInPlace, TypeOK
<1>6. ScriptOK' /\ DockerOK'
  <2>1. doomed' \in Seq(Shas)
    BY <1>4 DEF Others
  <2> QED BY <1>1, <2>1, TypeParts DEF IInv, ScriptOK, DockerOK, Phases
<1>7. GreenInPlace' /\ NewInPlace' /\ ImagesBuilt' /\ TagsInPlace'
  <2>1. Wanted(sha)' = Wanted(sha)
    BY <1>1 DEF Wanted
  <2> QED BY <1>1, <2>1
          DEF IInv, GreenInPlace, Standing, NameInPlace, NewInPlace, ImagesBuilt, TagsInPlace
<1>8. RestInPlace'
  <2>1. had = Others \cup {sha} /\ sha \notin Others
    BY <1>5 DEF Others
  <2>2. Cardinality(had) = n + 1
    <3> HIDE DEF had
    <3> QED BY <1>3, <2>1, FS_AddElement DEF n
  <2>3. refused = 0
    BY <1>1, NothingDoomed
  <2>4. n + 1 <= KeepTags + 0 + Len(doomed')
    BY <1>3, <1>4, NumbersAssumption
  <2> QED BY <1>1, <2>2, <2>3, <2>4 DEF RestInPlace
<1>9. DoomedInPlace'
  <2> SUFFICES ASSUME doomed' # <<>> PROVE DoomedInPlace'
    BY DEF DoomedInPlace
  <2>1. DOMAIN doomed' = 1..Len(doomed') /\ Len(doomed') # 0 /\ Len(doomed') \in Nat
    BY <1>4
  <2>2. \A i \in DOMAIN doomed' : doomed'[i] # sha /\ tags[doomed'[i]] # None
    BY <1>4, <2>1 DEF Others
  <2>3. \A i, j \in DOMAIN doomed' : i # j => doomed'[i] # doomed'[j]
    BY <1>3, <1>4, <2>1, NumbersAssumption
  <2> DEFINE first == {lines[i] : i \in 1..(KeepTags - 1)}
  <2>4. KeepTags - 1 \in Nat /\ \A i \in 1..(KeepTags - 1) : i \in 1..n
    BY <1>3, <1>4, <2>1, NumbersAssumption
  <2>5. Cardinality(first) = KeepTags - 1
    BY <1>3, <2>4, FirstLines
  <2>6. first \in SUBSET (Shas \ {sha}) /\ \A t \in first : tags[t] # None
    BY <1>3, <2>4 DEF Others
  <2>7. ASSUME NEW i \in 1..(KeepTags - 1), NEW j \in DOMAIN doomed'
        PROVE  lines[i] # doomed'[j] /\ tags[lines[i]] >= tags[doomed'[j]]
    <3>1. KeepTags + j - 1 \in 1..n /\ i \in 1..n /\ i < KeepTags + j - 1
      BY <1>3, <1>4, <2>1, <2>4, NumbersAssumption
    <3>2. doomed'[j] = lines[KeepTags + j - 1]
      BY <1>4, <2>1
    <3> QED BY <1>3, <3>1, <3>2
  <2>8. \A t \in first : \A j \in DOMAIN doomed' : t # doomed'[j] /\ tags[t] >= tags[doomed'[j]]
    BY <2>7
  <2>9. Cardinality(first) >= KeepTags - 1
    BY <2>4, <2>5
  <2> HIDE DEF first
  <2> QED BY <1>1, <2>2, <2>3, <2>6, <2>8, <2>9 DEF DoomedInPlace
<1> QED BY <1>6, <1>7, <1>8, <1>9, TypePartsNext DEF IInv

\* The tags left, when one more has had its turn.
LEMMA RemovedOne ==
  ASSUME TypeOK, NEW s \in Shas, tags[s] # None, tags' = [tags EXCEPT ![s] = None]
  PROVE  LET had == {t \in Shas : tags[t] # None}
             left == {t \in Shas : tags'[t] # None}
         IN  /\ Cardinality(left) = Cardinality(had) - 1
             /\ Cardinality(left) \in Nat /\ Cardinality(had) \in Nat
<1> DEFINE had == {t \in Shas : tags[t] # None}
           left == {t \in Shas : tags'[t] # None}
<1>1. left = had \ {s} /\ s \in had /\ had \subseteq Shas
  BY DEF TypeOK
<1> HIDE DEF had, left
<1>2. IsFiniteSet(had)
  BY <1>1, CommitsAssumption, FS_Subset
<1>3. IsFiniteSet(left) /\ Cardinality(left) = Cardinality(had) - 1
  BY <1>1, <1>2, FS_RemoveElement
<1> QED BY <1>2, <1>3, FS_CardinalityType DEF had, left

\* A tag of the container, of the deployed commit or of those to be kept is not removed.
LEMMA RemoveOldInv == IInv /\ RemoveOld => IInv'
<1> SUFFICES ASSUME IInv, RemoveOld PROVE IInv'
  OBVIOUS
<1> DEFINE s == Head(doomed)
<1>1. /\ phase = "remove" /\ doomed # <<>> /\ doomed' = Tail(doomed)
      /\ \/ tags' = [tags EXCEPT ![s] = None] /\ refused' = refused
         \/ refused' = refused + 1 /\ tags' = tags
      /\ UNCHANGED <<builds, sound, container, process, byHand, diskLow, phase, sha, prev, tries,
                     green, undisturbed>>
  BY DEF RemoveOld, host
<1>2. doomed \in Seq(Shas) /\ refused \in Nat /\ tags \in [Shas -> 1..builds \cup {None}]
  BY DEF IInv, TypeOK
<1>3. /\ s \in Shas /\ doomed' \in Seq(Shas) /\ Len(doomed') = Len(doomed) - 1
      /\ \A i \in DOMAIN doomed' : i + 1 \in DOMAIN doomed /\ doomed'[i] = doomed[i + 1]
      /\ s = doomed[1] /\ 1 \in DOMAIN doomed /\ Len(doomed) \in Nat
  <2>1. Len(doomed) \in Nat \ {0} /\ s = doomed[1]
    BY <1>1, <1>2
  <2> QED BY <1>1, <1>2, <2>1, HeadTailProperties
<1>4. s # sha /\ tags[s] # None
  BY <1>1, <1>3 DEF IInv, DoomedInPlace
<1>5. \A t \in Shas : t # s => tags'[t] = tags[t]
  BY <1>1, <1>2
<1>6. tags' \in [Shas -> 1..builds \cup {None}]
  BY <1>1, <1>2
<1> HIDE DEF s
<1>7. ScriptOK' /\ DockerOK'
  <2>1. refused' \in Nat
    BY <1>1, <1>2
  <2> QED BY <1>1, <1>3, <1>6, <2>1, TypeParts DEF IInv, ScriptOK, DockerOK, Phases
<1>8. /\ sha \in Shas /\ tags'[sha] = tags[sha] /\ tags[sha] # None
      /\ container # None => container.tag = sha
  <2>1. sha \in Shas /\ tags[sha] # None /\ container \in {None, Wanted(sha)}
    BY <1>1 DEF IInv, NewInPlace, TypeOK
  <2> QED BY <1>4, <1>5, <2>1 DEF Wanted
<1>9. NewInPlace' /\ TagsInPlace' /\ ImagesBuilt'
  <2>1. Wanted(sha)' = Wanted(sha)
    BY <1>1, <1>8 DEF Wanted
  <2> QED BY <1>1, <1>8, <2>1 DEF IInv, NewInPlace, TagsInPlace, ImagesBuilt
<1>10. GreenInPlace'
  <2>1. undisturbed /\ green # None => Standing
    BY <1>1 DEF IInv, GreenInPlace
  <2>2. Standing => Standing'
    BY <1>1, <1>8 DEF Standing, NameInPlace
  <2> QED BY <1>1, <2>1, <2>2 DEF GreenInPlace
<1>11. RestInPlace'
  <2> DEFINE had == {t \in Shas : tags[t] # None}
             left == {t \in Shas : tags'[t] # None}
  <2>1. Cardinality(had) <= KeepTags + refused + Len(doomed)
    BY <1>1 DEF IInv, RestInPlace
  <2>2. CASE tags' = [tags EXCEPT ![s] = None] /\ refused' = refused
    <3>1. /\ Cardinality(left) = Cardinality(had) - 1
          /\ Cardinality(left) \in Nat /\ Cardinality(had) \in Nat
      BY <1>3, <1>4, <2>2, RemovedOne DEF IInv
    <3> HIDE DEF had, left
    <3>2. Cardinality(left) <= KeepTags + refused' + Len(doomed')
      BY <1>2, <1>3, <2>1, <2>2, <3>1, NumbersAssumption
    <3> QED BY <3>2 DEF RestInPlace, left
  <2>3. CASE refused' = refused + 1 /\ tags' = tags
    <3>1. KeepTags + refused' + Len(doomed') = KeepTags + refused + Len(doomed)
      BY <1>2, <1>3, <2>3, NumbersAssumption
    <3> QED BY <2>1, <2>3, <3>1 DEF RestInPlace
  <2> QED BY <1>1, <2>2, <2>3
<1>12. DoomedInPlace'
  <2>1. /\ \A i \in DOMAIN doomed : doomed[i] # sha /\ tags[doomed[i]] # None
        /\ \A i, j \in DOMAIN doomed : i # j => doomed[i] # doomed[j]
    BY <1>1 DEF IInv, DoomedInPlace
  <2>2. PICK first \in SUBSET (Shas \ {sha}) :
          /\ Cardinality(first) >= KeepTags - 1
          /\ \A t \in first : /\ tags[t] # None
                              /\ \A i \in DOMAIN doomed : t # doomed[i] /\ tags[t] >= tags[doomed[i]]
    BY <1>1 DEF IInv, DoomedInPlace
  <2>3. ASSUME NEW i \in DOMAIN doomed'
        PROVE  doomed'[i] # s /\ tags'[doomed'[i]] = tags[doomed'[i]]
    <3>1. i \in Nat \ {0} /\ doomed'[i] \in Shas
      BY <1>3
    <3>2. doomed'[i] # s
      BY <1>3, <2>1, <3>1
    <3> QED BY <1>5, <3>1, <3>2
  <2>4. \A i \in DOMAIN doomed' : doomed'[i] # sha /\ tags'[doomed'[i]] # None
    BY <1>3, <2>1, <2>3
  <2>5. ASSUME NEW i \in DOMAIN doomed', NEW j \in DOMAIN doomed', i # j
        PROVE  doomed'[i] # doomed'[j]
    <3>1. i + 1 # j + 1
      BY <1>3, <2>5
    <3> QED BY <1>3, <2>1, <3>1
  <2>6. ASSUME NEW t \in first
        PROVE  /\ tags'[t] # None
               /\ \A i \in DOMAIN doomed' : t # doomed'[i] /\ tags'[t] >= tags'[doomed'[i]]
    <3>1. t # s /\ t \in Shas /\ tags'[t] = tags[t]
      BY <1>3, <1>5, <2>2
    <3> QED BY <1>3, <2>2, <2>3, <3>1
  <2> QED BY <1>1, <2>2, <2>4, <2>5, <2>6 DEF DoomedInPlace
<1> QED BY <1>7, <1>9, <1>10, <1>11, <1>12, TypePartsNext DEF IInv

LEMMA FinishInv == IInv /\ Finish => IInv'
<1> SUFFICES ASSUME IInv, Finish PROVE IInv'
  OBVIOUS
<1>1. /\ phase = "remove" /\ Exit
      /\ UNCHANGED <<builds, tags, sound, container, process, byHand, diskLow, green, undisturbed>>
  BY DEF Finish, docker, host
<1>2. DockerOK' /\ ImagesBuilt'
  BY <1>1, TypeParts DEF IInv, DockerOK, ImagesBuilt
<1>3. /\ ScriptOK' /\ NewInPlace' /\ TagsInPlace' /\ phase' = "idle"
      /\ DoomedInPlace' /\ RestInPlace'
  BY <1>1, ExitOK DEF IInv, TagsInPlace
<1>4. GreenInPlace'
  <2>1. undisturbed /\ green # None => Standing
    BY <1>1 DEF IInv, GreenInPlace
  <2> QED BY <1>1, <1>3, <2>1 DEF GreenInPlace, Standing, NameInPlace
<1> QED BY <1>2, <1>3, <1>4, TypePartsNext DEF IInv

-----------------------------------------------------------------------------
(* The process and the host.                                               *)

\* Who leaves the containers and the script alone.
LEMMA BystanderInv ==
  ASSUME IInv, UNCHANGED <<builds, tags, sound, container, script, green, undisturbed>>, DockerOK'
  PROVE  IInv'
<1>1. ScriptOK'
  BY TypeParts DEF IInv, ScriptOK, script, pruning
<1>2. GreenInPlace' /\ ImagesBuilt' /\ TagsInPlace'
  BY DEF IInv, GreenInPlace, Standing, NameInPlace, ImagesBuilt, TagsInPlace, script
<1>3. NewInPlace'
  <2>1. Wanted(sha)' = Wanted(sha)
    BY DEF Wanted, script
  <2> QED BY <2>1 DEF IInv, NewInPlace, script
<1>4. DoomedInPlace' /\ RestInPlace'
  BY DEF IInv, DoomedInPlace, RestInPlace, script, pruning
<1> QED BY <1>1, <1>2, <1>3, <1>4, TypePartsNext DEF IInv

LEMMA SurroundingsInv ==
  ASSUME IInv, Boot \/ Die \/ DiskChanges \/ RunByHand \/ StopByHand
  PROVE  IInv'
<1>1. UNCHANGED <<builds, tags, sound, container, script, green, undisturbed>>
  BY DEF Boot, Die, DiskChanges, RunByHand, StopByHand, docker, host
<1>2. DockerOK
  BY TypeParts DEF IInv
<1>3. CASE Boot
  BY <1>1, <1>2, <1>3, BystanderInv DEF Boot, host, DockerOK
<1>4. CASE Die
  BY <1>1, <1>2, <1>4, BystanderInv DEF Die, host, DockerOK
<1>5. CASE DiskChanges
  BY <1>1, <1>2, <1>5, BystanderInv DEF DiskChanges, docker, DockerOK
<1>6. CASE RunByHand
  BY <1>1, <1>2, <1>6, BystanderInv DEF RunByHand, docker, DockerOK
<1>7. CASE StopByHand
  BY <1>1, <1>2, <1>7, BystanderInv DEF StopByHand, docker, DockerOK
<1> QED BY <1>3, <1>4, <1>5, <1>6, <1>7

\* Without a container nothing stands, and nobody says that it does.
LEMMA RemoveContainerInv == IInv /\ RemoveContainer => IInv'
<1> SUFFICES ASSUME IInv, RemoveContainer PROVE IInv'
  OBVIOUS
<1>1. /\ container' = None /\ process' = "none" /\ undisturbed' = FALSE
      /\ UNCHANGED <<builds, tags, sound, byHand, diskLow, phase, sha, prev, tries, doomed,
                     refused, green>>
  BY DEF RemoveContainer, host, script, pruning
<1>2. ScriptOK'
  BY <1>1, TypeParts DEF IInv, ScriptOK
<1>3. DockerOK'
  <2>1. undisturbed' \in BOOLEAN
    BY <1>1
  <2> QED BY <1>1, <2>1, TypeParts DEF IInv, DockerOK
<1>4. GreenInPlace'
  BY <1>1 DEF GreenInPlace
<1>5. NewInPlace' /\ TagsInPlace' /\ ImagesBuilt'
  BY <1>1 DEF IInv, NewInPlace, TagsInPlace, ImagesBuilt
<1>6. DoomedInPlace' /\ RestInPlace'
  BY <1>1 DEF IInv, DoomedInPlace, RestInPlace
<1> QED BY <1>2, <1>3, <1>4, <1>5, <1>6, TypePartsNext DEF IInv

-----------------------------------------------------------------------------
LEMMA StepInv == IInv /\ [Next]_vars => IInv'
<1> SUFFICES ASSUME IInv, [Next]_vars PROVE IInv'
  OBVIOUS
<1>1. ASSUME NEW s \in Shas, Inspect(s) PROVE IInv'
  BY <1>1, InspectInv
<1>2. CASE Build \/ StartContainer \/ UpFails \/ Interrupted \/ Probe \/ RollBack
  BY <1>2, BuildInv, StartContainerInv, UpFailsInv, InterruptedInv, ProbeInv, RollBackInv
<1>3. CASE ListOld \/ RemoveOld \/ Finish
  BY <1>3, ListOldInv, RemoveOldInv, FinishInv
<1>4. CASE Boot \/ Die \/ DiskChanges \/ RunByHand \/ StopByHand
  BY <1>4, SurroundingsInv
<1>5. CASE RemoveContainer
  BY <1>5, RemoveContainerInv
<1>6. CASE UNCHANGED vars
  <2>1. UNCHANGED <<builds, tags, sound, container, script, green, undisturbed, process,
                    byHand, diskLow>>
    BY <1>6 DEF vars, docker, host
  <2> QED BY <2>1, BystanderInv, TypeParts DEF IInv, DockerOK
<1> QED BY <1>1, <1>2, <1>3, <1>4, <1>5, <1>6 DEF Next

\* The gate opens only to whoever holds the port, and in the container that is the new
\* process.
LEMMA GateStep ==
  ASSUME IInv, [Next]_vars, phase = "gate", phase' = "prune"
  PROVE  byHand \/ (container = Wanted(sha) /\ container.image \in sound)
<1>1. ~UNCHANGED vars
  BY DEF vars, script
<1>2. ~(Boot \/ Die \/ DiskChanges \/ RemoveContainer \/ RunByHand \/ StopByHand)
  BY DEF Boot, Die, DiskChanges, RemoveContainer, RunByHand, StopByHand, script
<1>3. ~(Build \/ StartContainer \/ UpFails \/ Interrupted \/ RollBack)
  BY DEF Build, StartContainer, UpFails, Interrupted, RollBack, Exit
<1>4. ~(ListOld \/ RemoveOld \/ Finish)
  BY DEF ListOld, RemoveOld, Finish
<1>5. \A s \in Shas : ~Inspect(s)
  BY DEF Inspect
<1>6. Probe
  BY <1>1, <1>2, <1>3, <1>4, <1>5 DEF Next
<1>7. Healthy
  <2>1. CASE ~Healthy
    BY <1>6, <2>1 DEF Probe
  <2> QED BY <2>1
<1>8. byHand \/ process = "serving"
  BY <1>7 DEF Healthy, Answered
<1> QED BY <1>8 DEF IInv, TypeOK, NewInPlace

\* Only "docker rmi" takes a tag away.
LEMMA OnlyRemovalsRemove ==
  ASSUME IInv, [Next]_vars, NEW s \in Shas, tags[s] # None, tags'[s] = None
  PROVE  RemoveOld
<1>1. tags' # tags
  OBVIOUS
<1>2. ~(\/ \E t \in Shas : Inspect(t)
        \/ StartContainer \/ UpFails \/ Interrupted \/ Probe \/ RollBack \/ ListOld \/ Finish
        \/ Boot \/ Die \/ DiskChanges \/ RemoveContainer \/ RunByHand \/ StopByHand
        \/ UNCHANGED vars)
  BY <1>1 DEF Inspect, StartContainer, UpFails, Interrupted, Probe, RollBack, ListOld, Finish,
     Boot, Die, DiskChanges, RemoveContainer, RunByHand, StopByHand, vars, docker
<1>3. CASE Build
  <2>1. PICK i : i # None /\ tags' = [tags EXCEPT ![sha] = i]
    <3>1. CASE builds < MaxBuilds /\ tags' = [tags EXCEPT ![sha] = builds + 1]
      <4>1. builds + 1 # None
        BY <3>1, NumbersAssumption, NoneAssumption DEF IInv, TypeOK
      <4> QED BY <3>1, <4>1
    <3>2. CASE \E t \in Shas : tags[t] # None /\ tags' = [tags EXCEPT ![sha] = tags[t]]
      BY <3>2
    <3> QED BY <1>3, <3>1, <3>2 DEF Build
  <2> QED BY <2>1 DEF IInv, TypeOK
<1> QED BY <1>2, <1>3 DEF Next

LEMMA SparesStep == IInv /\ [Next]_vars => SparesTheLast
<1> SUFFICES ASSUME IInv, [Next]_vars, NEW s \in Shas, tags[s] # None, tags'[s] = None
             PROVE  /\ s # sha
                    /\ container # None => container.tag # s
                    /\ Cardinality({t \in Shas \ {sha} : tags'[t] # None /\ tags'[t] >= tags[s]})
                         >= KeepTags - 1
  BY DEF SparesTheLast
<1>1. RemoveOld
  BY OnlyRemovalsRemove
<1>2. /\ phase = "remove" /\ doomed # <<>> /\ doomed \in Seq(Shas)
      /\ tags' = [tags EXCEPT ![Head(doomed)] = None] /\ s = Head(doomed)
  BY <1>1 DEF RemoveOld, IInv, TypeOK
<1>3. s = doomed[1] /\ 1 \in DOMAIN doomed
  BY <1>2
<1>4. s # sha
  BY <1>2, <1>3 DEF IInv, DoomedInPlace
<1>5. container # None => container.tag = sha
  BY <1>2 DEF IInv, NewInPlace, Wanted
<1>6. PICK first \in SUBSET (Shas \ {sha}) :
        /\ Cardinality(first) >= KeepTags - 1
        /\ \A t \in first : /\ tags[t] # None
                            /\ \A i \in DOMAIN doomed : t # doomed[i] /\ tags[t] >= tags[doomed[i]]
  BY <1>2 DEF IInv, DoomedInPlace
<1> DEFINE kept == {t \in Shas \ {sha} : tags'[t] # None /\ tags'[t] >= tags[s]}
<1>7. first \subseteq kept
  <2>1. ASSUME NEW t \in first PROVE t \in kept
    <3>1. t # s /\ t \in Shas \ {sha} /\ tags[t] # None /\ tags[t] >= tags[s]
      BY <1>3, <1>6
    <3>2. tags'[t] = tags[t]
      BY <1>2, <3>1 DEF IInv, TypeOK
    <3> QED BY <3>1, <3>2
  <2> QED BY <2>1
<1>8. IsFiniteSet(kept)
  <2>1. kept \subseteq Shas
    OBVIOUS
  <2> HIDE DEF kept
  <2> QED BY <2>1, CommitsAssumption, FS_Subset
<1> HIDE DEF kept
<1>9. Cardinality(first) <= Cardinality(kept) /\ Cardinality(first) \in Nat /\ Cardinality(kept) \in Nat
  BY <1>7, <1>8, FS_Subset, FS_CardinalityType
<1>10. Cardinality(kept) >= KeepTags - 1
  BY <1>6, <1>9, NumbersAssumption
<1> QED BY <1>4, <1>5, <1>10 DEF kept

LEMMA DropsStep == IInv => DropsTheRest
<1> SUFFICES ASSUME IInv, phase = "remove", doomed = <<>>
             PROVE  Cardinality({s \in Shas : tags[s] # None}) <= KeepTags + refused
  BY DEF DropsTheRest
<1>1. Cardinality({s \in Shas : tags[s] # None}) <= KeepTags + refused + Len(doomed)
  BY DEF IInv, RestInPlace
<1>2. KeepTags + refused + Len(doomed) = KeepTags + refused
  BY NumbersAssumption DEF IInv, TypeOK
<1> QED BY <1>1, <1>2

-----------------------------------------------------------------------------
(* Theorems.                                                               *)

\* The strengthening is an invariant of every behaviour.
THEOREM Invariance == Spec => []IInv
<1>1. IInv /\ [Next]_vars => IInv'
  BY StepInv
<1> QED BY InitInv, <1>1, PTL DEF Spec

\* Every variable keeps its range; in particular a process serves only in a container,
\* from an image that gets through lifespan, and never beside the service run by hand.
THEOREM TypeCorrect == Spec => []TypeOK
<1>1. IInv => TypeOK
  BY DEF IInv
<1> QED BY Invariance, <1>1, PTL

\* After any number of failed deployments the roll-backs of deploy.sh have kept, or
\* brought back, what was declared healthy last.
THEOREM RollBackKeepsTheHealthy == Spec => []LastHealthyRuns
<1>1. ASSUME IInv, phase = "idle", undisturbed, green # None
      PROVE  /\ container.tag = green.tag /\ tags[green.tag] # None
             /\ container.image = green.image \/ tags[green.tag] # green.image
  <2>1. Standing
    BY <1>1 DEF IInv, GreenInPlace
  <2>2. tags[green.tag] \in Nat /\ green.image \in Nat
    BY <1>1, <2>1, GreenNumbers DEF Standing, NameInPlace
  <2>3. tags[green.tag] > green.image => tags[green.tag] # green.image
    BY <2>2
  <2> QED BY <2>1, <2>3 DEF Standing, NameInPlace
<1>2. IInv => LastHealthyRuns
  BY <1>1 DEF LastHealthyRuns
<1> QED BY Invariance, <1>2, PTL

\* The health gate of deploy.sh opens for the image just built, or for the fallback.
THEOREM GateIsForTheNewBuild == Spec => HealthyIsTheNewBuild
<1>1. IInv /\ [Next]_vars =>
        [phase = "gate" /\ phase' = "prune" =>
           byHand \/ (container = Wanted(sha) /\ container.image \in sound)]_vars
  BY GateStep
<1> QED BY Invariance, <1>1, PTL DEF Spec, HealthyIsTheNewBuild

\* deploy.sh never removes the deployed image, the one the container names, or one of the
\* KEEP_TAGS - 1 youngest others, whichever removals fail and wherever it is killed; one
\* that gets to its end leaves no more than KEEP_TAGS, but for those that docker refused to
\* remove.  Commits may share an image, and docker may list their tags in any order.
THEOREM PruningKeepsTheLast == Spec => PruneKeepsTheLast
<1>1. IInv /\ [Next]_vars => [SparesTheLast /\ DropsTheRest]_vars
  BY SparesStep, DropsStep
<1> QED BY Invariance, <1>1, PTL DEF Spec, PruneKeepsTheLast
=============================================================================
