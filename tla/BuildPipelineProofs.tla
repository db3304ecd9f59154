------------------------- MODULE BuildPipelineProofs -------------------------
(***************************************************************************)
(* What BuildPipeline promises, for any number of builds, directories,     *)
(* repositories and refs.                                                  *)
(***************************************************************************)
EXTENDS BuildPipeline, TLAPS

(* A build between MkdirTemp and its return has a directory.               *)
DirsExist == \A b \in Builds : HasDir(b) => dir[b] \in DOMAIN contents

(* What is in it once the sources are there.                               *)
Fetched == {"dockerfile", "build", "running", "pushed"}
Expected(b) ==
    IF Remote(entry[b]) THEN [repo |-> entry[b].url, ref |-> ref[b]] ELSE NoSources
DirsAreFilled == \A b \in Builds : stage[b] \in Fetched => contents[dir[b]] = Expected(b)

(* Only repositories with a URL are asked for and cloned; the others keep  *)
(* the branch they were given.                                             *)
ClonesAreRemote ==
    \A b \in Builds :
        /\ stage[b] \in {"validate", "default", "clone", "cloning"} => Remote(entry[b])
        /\ stage[b] \notin {"idle", "ready"} /\ ~Remote(entry[b]) => ref[b] = entry[b].ref

ContextsAreMade == \A b \in Builds : ctx[b] = "none" <=> stage[b] = "idle"

(* DirsHaveOwners, its parts apart.                                        *)
DirsAreOwned ==
    \A d \in DOMAIN contents \ leftBehind : \E b \in Builds : HasDir(b) /\ dir[b] = d
DirsDiffer ==
    \A b, c \in Builds : HasDir(b) /\ HasDir(c) /\ b # c => dir[b] # dir[c]
LeftAlone == \A b \in Builds : HasDir(b) => dir[b] \notin leftBehind

Dirty == DirsExist /\ DirsAreFilled /\ DirsAreOwned /\ DirsDiffer /\ LeftAlone
Inv == TypeOK /\ Dirty /\ ClonesAreRemote /\ ContextsAreMade /\ ImageHoldsItsSources

-----------------------------------------------------------------------------

(* The types hold in every state.                                          *)
LEMMA TypeInit == Init => TypeOK
<1> SUFFICES ASSUME Init PROVE TypeOK
  OBVIOUS
<1>1. (CHOOSE e \in Entries : TRUE) \in Entries
  BY EntryAssumption
<1> QED
  BY <1>1, EntryAssumption DEF Init, TypeOK, Stages

LEMMA EntryParts ==
    ASSUME TypeOK, NEW b \in Builds
    PROVE  entry[b] \in Entries /\ entry[b].ref \in Refs
BY EntryAssumption DEF TypeOK

LEMMA TypeReturn ==
    ASSUME TypeOK, DirsExist, LeftAlone, NEW b \in Builds, HasDir(b),
           NEW result \in {"ok", "err"}, Return(b, result)
    PROVE  TypeOK'
<1>1. /\ DOMAIN contents' \subseteq Dirs
      /\ \A d \in DOMAIN contents' : contents'[d] \in Sources \cup {NoSources}
      /\ leftBehind' \subseteq DOMAIN contents'
  <2>1. CASE contents' = Without(contents, dir[b]) /\ UNCHANGED leftBehind
    BY <2>1 DEF TypeOK, Without, LeftAlone
  <2>2. CASE leftBehind' = leftBehind \cup {dir[b]} /\ UNCHANGED contents
    BY <2>2 DEF TypeOK, DirsExist
  <2> QED
    BY <2>1, <2>2 DEF Return
<1>2. stage' \in [Builds -> Stages] /\ registry' = registry
  BY DEF Return, TypeOK, Stages
<1>3. UNCHANGED <<alive, giteaMade, ctx, entry, section, ref, branch, dir>>
  BY DEF Return, setup, locals
<1> QED
  BY <1>1, <1>2, <1>3 DEF TypeOK

LEMMA TypeStep ==
    ASSUME TypeOK, DirsExist, LeftAlone, [Next]_vars
    PROVE  TypeOK'
<1> USE DEF TypeOK, Stages, setup, locals, disk
<1>1. ASSUME NEW b \in Builds, MakeContext(b) PROVE TypeOK'
  BY <1>1 DEF MakeContext, Goto
<1>2. ASSUME NEW b \in Builds, EndContext(b) PROVE TypeOK'
  BY <1>2 DEF EndContext
<1>3. ASSUME NEW b \in Builds, NEW e \in Entries, BuildRepository(b, e) PROVE TypeOK'
  BY <1>3, EntryAssumption DEF BuildRepository, Goto
<1>4. ASSUME NEW b \in Builds, MakeDir(b) PROVE TypeOK'
  <2>1. AfterMkdir(b) \in Stages
    BY DEF AfterMkdir
  <2>2. PICK d \in Dirs \ DOMAIN contents :
          dir' = [dir EXCEPT ![b] = d] /\ contents' = With(contents, d, NoSources)
    BY <1>4 DEF MakeDir
  <2>3. /\ DOMAIN contents' \subseteq Dirs
        /\ \A z \in DOMAIN contents' : contents'[z] \in Sources \cup {NoSources}
        /\ leftBehind \subseteq DOMAIN contents'
    BY <2>2 DEF With
  <2>4. stage' \in [Builds -> Stages] /\ dir' \in [Builds -> Dirs \cup {Unset}]
    BY <1>4, <2>1, <2>2 DEF MakeDir, Goto
  <2>5. UNCHANGED <<alive, giteaMade, ctx, entry, section, ref, branch, leftBehind, registry>>
    BY <1>4 DEF MakeDir
  <2> QED
    BY <2>3, <2>4, <2>5
<1>5. ASSUME NEW b \in Builds, NoDir(b) \/ BranchNotValid(b) \/ StartClone(b)
                               \/ CopyDockerfile(b) \/ StartBuildx(b) \/ NilClient(b)
                               \/ NilSection(b)
      PROVE  TypeOK'
  BY <1>5 DEF NoDir, BranchNotValid, StartClone, CopyDockerfile, StartBuildx, NilClient,
     NilSection, Goto
<1>6. ASSUME NEW b \in Builds, ValidateBranch(b) \/ GetDefaultBranch(b) PROVE TypeOK'
  BY <1>6, EntryAssumption DEF ValidateBranch, GetDefaultBranch, Goto
<1>7. ASSUME NEW b \in Builds, NoDefaultBranch(b) \/ CloneFails(b) \/ NoDockerfile(b)
                               \/ BuildxFails(b) \/ BuildxDone(b)
      PROVE  TypeOK'
  BY <1>7, TypeReturn
     DEF NoDefaultBranch, CloneFails, NoDockerfile, BuildxFails, BuildxDone, HasDir
<1>8. ASSUME NEW b \in Builds, Cloned(b) PROVE TypeOK'
  <2>1. [repo |-> entry[b].url, ref |-> branch[b]] \in Sources
    BY EntryParts DEF Sources
  <2>2. /\ DOMAIN contents' \subseteq Dirs
        /\ \A z \in DOMAIN contents' : contents'[z] \in Sources \cup {NoSources}
        /\ leftBehind \subseteq DOMAIN contents'
    BY <1>8, <2>1 DEF Cloned
  <2>3. stage' \in [Builds -> Stages] /\ ref' \in [Builds -> Refs]
    BY <1>8 DEF Cloned, Goto
  <2>4. UNCHANGED <<alive, giteaMade, ctx, entry, section, branch, dir, leftBehind, registry>>
    BY <1>8 DEF Cloned
  <2> QED
    BY <2>2, <2>3, <2>4
<1>9. ASSUME NEW b \in Builds, Push(b) PROVE TypeOK'
  <2>1. contents[dir[b]] \in Sources \cup {NoSources}
    BY <1>9 DEF Push, Goto, DirsExist, HasDir
  <2>2. \A n \in DOMAIN registry' : registry'[n].of \in Sources \cup {NoSources}
    BY <1>9, <2>1 DEF Push, With
  <2>3. stage' \in [Builds -> Stages]
    BY <1>9 DEF Push, Goto
  <2>4. UNCHANGED <<alive, giteaMade, ctx, entry, section, ref, branch, dir, contents, leftBehind>>
    BY <1>9 DEF Push
  <2> QED
    BY <2>2, <2>3, <2>4
<1> QED
  BY <1>1, <1>2, <1>3, <1>4, <1>5, <1>6, <1>7, <1>8, <1>9 DEF Next, Step, vars

-----------------------------------------------------------------------------
(* The steps of a build, by what they do to its directory.                 *)

(* Neither makes, fills nor removes one.                                   *)
LEMMA DirtyFrame ==
    ASSUME Dirty, UNCHANGED <<dir, contents, leftBehind>>,
           \A c \in Builds : HasDir(c)' <=> HasDir(c),
           \A c \in Builds : stage'[c] \in Fetched =>
               stage[c] \in Fetched /\ entry'[c] = entry[c] /\ ref'[c] = ref[c]
    PROVE  Dirty'
<1> USE DEF Dirty
<1>1. DirsExist'
  BY DEF DirsExist
<1>2. DirsAreFilled'
  BY DEF DirsAreFilled, Expected
<1>3. DirsAreOwned'
  BY DEF DirsAreOwned
<1>4. DirsDiffer'
  BY DEF DirsDiffer
<1>5. LeftAlone'
  BY DEF LeftAlone
<1> QED
  BY <1>1, <1>2, <1>3, <1>4, <1>5

LEMMA DirtyMake ==
    ASSUME TypeOK, Dirty, NEW b \in Builds, MakeDir(b)
    PROVE  Dirty'
<1> USE DEF Dirty, TypeOK
<1>1. PICK d \in Dirs \ DOMAIN contents :
        dir' = [dir EXCEPT ![b] = d] /\ contents' = With(contents, d, NoSources)
  BY DEF MakeDir
<1>2. /\ DOMAIN contents' = DOMAIN contents \cup {d} /\ contents'[d] = NoSources
      /\ \A z \in DOMAIN contents : contents'[z] = contents[z]
      /\ leftBehind' = leftBehind /\ d \notin leftBehind
  BY <1>1 DEF With, MakeDir
<1>3. /\ stage' = [stage EXCEPT ![b] = AfterMkdir(b)] /\ stage[b] = "mkdir"
      /\ entry' = entry /\ ref' = ref
  BY DEF MakeDir, Goto
<1>4. HasDir(b)' /\ ~HasDir(b) /\ (stage'[b] \in Fetched => ~Remote(entry[b]))
  BY <1>3 DEF HasDir, AfterMkdir, Fetched
<1>5. \A c \in Builds \ {b} : stage'[c] = stage[c] /\ dir'[c] = dir[c] /\ (HasDir(c)' <=> HasDir(c))
  BY <1>1, <1>3 DEF HasDir
<1>6. dir'[b] = d
  BY <1>1
<1>7. \A c \in Builds : stage[c] \in Fetched => HasDir(c)
  BY DEF Fetched, HasDir
<1> HIDE DEF TypeOK
<1>8. DirsExist'
  BY <1>2, <1>5, <1>6 DEF DirsExist
<1>9. DirsAreFilled'
  BY <1>2, <1>3, <1>4, <1>5, <1>6, <1>7 DEF DirsExist, DirsAreFilled, Expected
<1>10. DirsAreOwned'
  BY <1>2, <1>4, <1>5, <1>6 DEF DirsAreOwned
<1>11. DirsDiffer'
  BY <1>1, <1>4, <1>5, <1>6 DEF DirsExist, DirsDiffer
<1>12. LeftAlone'
  BY <1>2, <1>4, <1>5, <1>6 DEF LeftAlone
<1> QED
  BY <1>8, <1>9, <1>10, <1>11, <1>12

LEMMA DirtyReturn ==
    ASSUME TypeOK, Dirty, NEW b \in Builds, HasDir(b),
           NEW result \in {"ok", "err"}, Return(b, result)
    PROVE  Dirty'
<1> USE DEF Dirty
<1>1. /\ stage' = [stage EXCEPT ![b] = result]
      /\ dir' = dir /\ entry' = entry /\ ref' = ref
      /\ DOMAIN contents \ {dir[b]} \subseteq DOMAIN contents'
      /\ \A z \in DOMAIN contents' : contents'[z] = contents[z]
  BY DEF Return, locals, Without
<1>2. ~HasDir(b)' /\ stage'[b] \notin Fetched
  BY <1>1 DEF TypeOK, HasDir, Fetched
<1>3. \A c \in Builds \ {b} : stage'[c] = stage[c] /\ (HasDir(c)' <=> HasDir(c))
  BY <1>1 DEF TypeOK, HasDir
<1>4. \A c \in Builds : stage[c] \in Fetched => HasDir(c)
  BY DEF Fetched, HasDir
<1>5. /\ DOMAIN contents' \ leftBehind' \subseteq (DOMAIN contents \ leftBehind) \ {dir[b]}
      /\ leftBehind' \subseteq leftBehind \cup {dir[b]}
  BY DEF Return, Without
<1>6. DirsExist'
  BY <1>1, <1>2, <1>3 DEF DirsExist, DirsDiffer
<1>7. DirsAreFilled'
  BY <1>1, <1>2, <1>3, <1>4 DEF DirsExist, DirsDiffer, DirsAreFilled, Expected
<1>8. DirsAreOwned'
  BY <1>1, <1>3, <1>5 DEF DirsAreOwned
<1>9. DirsDiffer'
  BY <1>1, <1>2, <1>3 DEF DirsDiffer
<1>10. LeftAlone'
  BY <1>1, <1>2, <1>3, <1>5 DEF LeftAlone, DirsDiffer
<1> QED
  BY <1>6, <1>7, <1>8, <1>9, <1>10

LEMMA DirtyCloned ==
    ASSUME TypeOK, Dirty, ClonesAreRemote, NEW b \in Builds, Cloned(b)
    PROVE  Dirty'
<1> USE DEF Dirty
<1>1. /\ stage' = [stage EXCEPT ![b] = "dockerfile"] /\ stage[b] = "cloning"
      /\ dir' = dir /\ entry' = entry /\ ref' = [ref EXCEPT ![b] = branch[b]]
      /\ leftBehind' = leftBehind
      /\ contents' = [contents EXCEPT ![dir[b]] = [repo |-> entry[b].url, ref |-> branch[b]]]
  BY DEF Cloned, Goto
<1>2. HasDir(b) /\ HasDir(b)' /\ Remote(entry[b])
  BY <1>1 DEF TypeOK, HasDir, ClonesAreRemote
<1>3. \A c \in Builds \ {b} :
        stage'[c] = stage[c] /\ ref'[c] = ref[c] /\ (HasDir(c)' <=> HasDir(c))
  BY <1>1 DEF TypeOK, HasDir
<1>4. \A c \in Builds : stage[c] \in Fetched => HasDir(c)
  BY DEF Fetched, HasDir
<1>5. /\ DOMAIN contents' = DOMAIN contents
      /\ contents'[dir[b]] = [repo |-> entry[b].url, ref |-> branch[b]]
      /\ \A z \in DOMAIN contents \ {dir[b]} : contents'[z] = contents[z]
  BY <1>1, <1>2 DEF DirsExist
<1>6. ref'[b] = branch[b]
  BY <1>1 DEF TypeOK
<1>7. DirsExist'
  BY <1>1, <1>2, <1>3, <1>5 DEF DirsExist
<1>8. DirsAreFilled'
  BY <1>1, <1>2, <1>3, <1>4, <1>5, <1>6 DEF DirsExist, DirsDiffer, DirsAreFilled, Expected
<1>9. DirsAreOwned'
  BY <1>1, <1>2, <1>3, <1>5 DEF DirsAreOwned
<1>10. DirsDiffer'
  BY <1>1, <1>2, <1>3 DEF DirsDiffer
<1>11. LeftAlone'
  BY <1>1, <1>2, <1>3 DEF LeftAlone
<1> QED
  BY <1>7, <1>8, <1>9, <1>10, <1>11

(* A failed or finished build returns once, out of its directory.          *)
Returning(b) ==
    NoDefaultBranch(b) \/ CloneFails(b) \/ NoDockerfile(b) \/ BuildxFails(b) \/ BuildxDone(b)

LEMMA ReturningReturns ==
    ASSUME NEW b \in Builds, Returning(b)
    PROVE  HasDir(b) /\ \E result \in {"ok", "err"} : Return(b, result)
BY DEF Returning, NoDefaultBranch, CloneFails, NoDockerfile, BuildxFails, BuildxDone, HasDir

(* A step inside BuildRepository that changes no directory.                *)
Asking(b) ==
    \/ NoDir(b) \/ ValidateBranch(b) \/ BranchNotValid(b) \/ NilClient(b)
    \/ NilSection(b) \/ GetDefaultBranch(b) \/ StartClone(b) \/ CopyDockerfile(b) \/ StartBuildx(b)

Within == {<<"mkdir", "err">>, <<"validate", "clone">>, <<"validate", "default">>,
           <<"default", "clone">>, <<"clone", "cloning">>, <<"dockerfile", "build">>,
           <<"build", "running">>}

(* Where such a step goes: a panic goes nowhere.                           *)
LEMMA AskingGoes ==
    ASSUME TypeOK, NEW b \in Builds, Asking(b)
    PROVE  /\ UNCHANGED <<ctx, entry, ref, dir, disk, registry>>
           /\ \/ stage' = stage
              \/ \E step \in Within : /\ stage[b] = step[1]
                                      /\ stage' = [stage EXCEPT ![b] = step[2]]
<1>1. UNCHANGED <<ctx, entry, ref, dir, disk, registry>>
  BY DEF Asking, NoDir, ValidateBranch, BranchNotValid, NilClient, NilSection, GetDefaultBranch,
     StartClone, CopyDockerfile, StartBuildx, locals
<1>2. \/ stage' = stage
      \/ \E step \in Within : stage[b] = step[1] /\ stage' = [stage EXCEPT ![b] = step[2]]
  <2>1. CASE NilClient(b) \/ NilSection(b)
    BY <2>1 DEF NilClient, NilSection
  <2>2. CASE NoDir(b)
    BY <2>2 DEF NoDir, Goto, Within
  <2>3. CASE ValidateBranch(b)
    BY <2>3 DEF ValidateBranch, Goto, Within
  <2>4. CASE BranchNotValid(b)
    BY <2>4 DEF BranchNotValid, Goto, Within
  <2>5. CASE GetDefaultBranch(b)
    BY <2>5 DEF GetDefaultBranch, Goto, Within
  <2>6. CASE StartClone(b)
    BY <2>6 DEF StartClone, Goto, Within
  <2>7. CASE CopyDockerfile(b)
    BY <2>7 DEF CopyDockerfile, Goto, Within
  <2>8. CASE StartBuildx(b)
    BY <2>8 DEF StartBuildx, Goto, Within
  <2> QED
    BY <2>1, <2>2, <2>3, <2>4, <2>5, <2>6, <2>7, <2>8 DEF Asking
<1> QED
  BY <1>1, <1>2

LEMMA DirtyStep ==
    ASSUME TypeOK, Dirty, ClonesAreRemote, [Next]_vars
    PROVE  Dirty'
<1> USE DEF TypeOK
<1>1. ASSUME NEW b \in Builds, MakeContext(b) PROVE Dirty'
  BY <1>1, DirtyFrame DEF MakeContext, Goto, HasDir, Fetched, locals, disk
<1>2. ASSUME NEW b \in Builds, EndContext(b) PROVE Dirty'
  BY <1>2, DirtyFrame DEF EndContext, HasDir, locals, disk
<1>3. ASSUME NEW b \in Builds, NEW e \in Entries, BuildRepository(b, e) PROVE Dirty'
  BY <1>3, DirtyFrame DEF BuildRepository, Goto, HasDir, Fetched, disk
<1>4. ASSUME NEW b \in Builds, Asking(b) PROVE Dirty'
  BY <1>4, AskingGoes, DirtyFrame DEF Within, HasDir, Fetched, disk
<1>5. ASSUME NEW b \in Builds, MakeDir(b) PROVE Dirty'
  BY <1>5, DirtyMake
<1>6. ASSUME NEW b \in Builds, Returning(b) PROVE Dirty'
  BY <1>6, ReturningReturns, DirtyReturn
<1>7. ASSUME NEW b \in Builds, Cloned(b) PROVE Dirty'
  BY <1>7, DirtyCloned
<1>8. ASSUME NEW b \in Builds, Push(b) PROVE Dirty'
  BY <1>8, DirtyFrame DEF Push, Goto, HasDir, Fetched, locals, disk
<1>9. CASE UNCHANGED vars
  BY <1>9, DirtyFrame DEF vars, locals, disk, HasDir
<1> QED
  BY <1>1, <1>2, <1>3, <1>4, <1>5, <1>6, <1>7, <1>8, <1>9
     DEF Next, Step, Asking, Returning

-----------------------------------------------------------------------------
(* The other parts of the invariant.                                       *)

LEMMA RemoteStep ==
    ASSUME TypeOK, ClonesAreRemote, [Next]_vars
    PROVE  ClonesAreRemote'
<1> USE DEF TypeOK, ClonesAreRemote
<1>1. ASSUME NEW b \in Builds, MakeContext(b) \/ EndContext(b) PROVE ClonesAreRemote'
  BY <1>1 DEF MakeContext, EndContext, Goto, locals
<1>2. ASSUME NEW b \in Builds, NEW e \in Entries, BuildRepository(b, e) PROVE ClonesAreRemote'
  BY <1>2 DEF BuildRepository, Goto
<1>3. ASSUME NEW b \in Builds, Asking(b) PROVE ClonesAreRemote'
  BY <1>3, AskingGoes DEF Within
<1>4. ASSUME NEW b \in Builds, MakeDir(b) PROVE ClonesAreRemote'
  BY <1>4 DEF MakeDir, AfterMkdir, Goto
<1>5. ASSUME NEW b \in Builds, Returning(b) PROVE ClonesAreRemote'
  BY <1>5, ReturningReturns DEF Return, HasDir, locals
<1>6. ASSUME NEW b \in Builds, Cloned(b) \/ Push(b) PROVE ClonesAreRemote'
  BY <1>6 DEF Cloned, Push, Goto, locals
<1>7. CASE UNCHANGED vars
  BY <1>7 DEF vars, locals
<1> QED
  BY <1>1, <1>2, <1>3, <1>4, <1>5, <1>6, <1>7 DEF Next, Step, Asking, Returning

LEMMA ContextStep ==
    ASSUME TypeOK, ContextsAreMade, [Next]_vars
    PROVE  ContextsAreMade'
<1> USE DEF TypeOK, ContextsAreMade
<1>1. ASSUME NEW b \in Builds, MakeContext(b) PROVE ContextsAreMade'
  BY <1>1 DEF MakeContext, Goto
<1>2. ASSUME NEW b \in Builds, EndContext(b) PROVE ContextsAreMade'
  BY <1>2 DEF EndContext
<1>3. ASSUME NEW b \in Builds, NEW e \in Entries, BuildRepository(b, e) PROVE ContextsAreMade'
  BY <1>3 DEF BuildRepository, Goto
<1>4. ASSUME NEW b \in Builds, Asking(b) PROVE ContextsAreMade'
  BY <1>4, AskingGoes DEF Within
<1>5. ASSUME NEW b \in Builds, MakeDir(b) PROVE ContextsAreMade'
  BY <1>5 DEF MakeDir, AfterMkdir, Goto
<1>6. ASSUME NEW b \in Builds, Returning(b) PROVE ContextsAreMade'
  BY <1>6, ReturningReturns DEF Return, HasDir
<1>7. ASSUME NEW b \in Builds, Cloned(b) \/ Push(b) PROVE ContextsAreMade'
  BY <1>7 DEF Cloned, Push, Goto
<1>8. CASE UNCHANGED vars
  BY <1>8 DEF vars
<1> QED
  BY <1>1, <1>2, <1>3, <1>4, <1>5, <1>6, <1>7, <1>8 DEF Next, Step, Asking, Returning

(* Only Push names an image, and what it pushes is in its directory.       *)
LEMMA ImageStep ==
    ASSUME TypeOK, Dirty, ClonesAreRemote, ImageHoldsItsSources, [Next]_vars
    PROVE  ImageHoldsItsSources'
<1>1. ASSUME NEW b \in Builds, Push(b) PROVE ImageHoldsItsSources'
  <2> DEFINE name == ImageName(entry[b], ref[b])
             image == [entry |-> entry[b], of |-> contents[dir[b]],
                       platforms |-> BuiltPlatforms(entry[b].platforms)]
  <2>1. registry' = With(registry, name, image)
    BY <1>1 DEF Push
  <2>2. contents[dir[b]] = Expected(b)
    BY <1>1 DEF Push, Goto, Dirty, DirsAreFilled, Fetched
  <2>3. image.entry = entry[b] /\ image.of = Expected(b) /\ name = ImageName(entry[b], ref[b])
    BY <2>2
  <2>4. ~Remote(entry[b]) => ref[b] = entry[b].ref
    BY <1>1 DEF Push, Goto, ClonesAreRemote
  <2>5. IF Remote(image.entry)
        THEN image.of.repo = image.entry.url /\ name = ImageName(image.entry, image.of.ref)
        ELSE image.of = NoSources /\ name = ImageName(image.entry, image.entry.ref)
    BY <2>3, <2>4 DEF Expected
  <2> HIDE DEF name, image
  <2>6. ASSUME NEW n \in DOMAIN registry'
        PROVE  \/ n = name /\ registry'[n] = image
               \/ n \in DOMAIN registry /\ registry'[n] = registry[n]
    BY <2>1, <2>6 DEF With
  <2> QED
    BY <2>5, <2>6 DEF ImageHoldsItsSources
<1>2. CASE registry' = registry
  BY <1>2 DEF ImageHoldsItsSources
<1>3. ASSUME NEW b \in Builds, Asking(b) \/ Returning(b) PROVE registry' = registry
  BY <1>3, AskingGoes, ReturningReturns DEF Return
<1>4. (\E b \in Builds : Push(b)) \/ registry' = registry
  BY <1>3 DEF Next, Step, Asking, Returning, vars, MakeContext, EndContext, BuildRepository,
     MakeDir, Cloned
<1> QED
  BY <1>1, <1>2, <1>4

-----------------------------------------------------------------------------

LEMMA InvInit == Init => Inv
<1> SUFFICES ASSUME Init PROVE Inv
  OBVIOUS
<1>1. TypeOK
  BY TypeInit
<1>2. Dirty
  BY DEF Init, Dirty, DirsExist, DirsAreFilled, DirsAreOwned, DirsDiffer, LeftAlone, HasDir,
     Fetched
<1>3. ClonesAreRemote /\ ContextsAreMade /\ ImageHoldsItsSources
  BY DEF Init, ClonesAreRemote, ContextsAreMade, ImageHoldsItsSources
<1> QED
  BY <1>1, <1>2, <1>3 DEF Inv

LEMMA InvStep == Inv /\ [Next]_vars => Inv'
BY TypeStep, DirtyStep, RemoteStep, ContextStep, ImageStep DEF Inv, Dirty

LEMMA Invariance == Spec => []Inv
BY InvInit, InvStep, PTL DEF Spec

(* Every variable of BuildPipeline keeps its type.                         *)
THEOREM TypeCorrect == Spec => []TypeOK
<1>1. Inv => TypeOK
  BY DEF Inv
<1> QED
  BY <1>1, Invariance, PTL

(* An image holds the sources of the repository and the branch that its    *)
(* name is made of, however many builds of however many branches run       *)
(* beside it.                                                              *)
THEOREM ImagesAreTrue == Spec => []ImageHoldsItsSources
<1>1. Inv => ImageHoldsItsSources
  BY DEF Inv
<1> QED
  BY <1>1, Invariance, PTL

(* A build directory belongs to exactly one build that has not returned,   *)
(* unless it could not be removed; then nobody is given it.                *)
THEOREM DirsAreTidy == Spec => []DirsHaveOwners
<1>1. Inv => DirsHaveOwners
  <2> SUFFICES ASSUME Inv, NEW d \in DOMAIN contents
               PROVE  LET Owners == {b \in Builds : HasDir(b) /\ dir[b] = d}
                      IN  IF d \in leftBehind THEN Owners = {}
                          ELSE \E b \in Builds : Owners = {b}
    BY DEF DirsHaveOwners
  <2>1. CASE d \in leftBehind
    BY <2>1 DEF Inv, Dirty, LeftAlone
  <2>2. CASE d \notin leftBehind
    BY <2>2 DEF Inv, Dirty, DirsAreOwned, DirsDiffer
  <2> QED
    BY <2>1, <2>2
<1> QED
  BY <1>1, Invariance, PTL

-----------------------------------------------------------------------------
(* BuildPipeline implements BuildCall.                                     *)

CallOf == [b \in Builds |-> CallPhase(b)]

LEMMA InitCall == Init => Call!CallInit
BY DEF Init, Call!CallInit, CallPhase

(* A step of one build changes at most its own phase.                      *)
LEMMA OnePhase ==
    ASSUME TypeOK, NEW b \in Builds, NEW s \in Stages,
           stage' = [stage EXCEPT ![b] = s],
           \A c \in Builds \ {b} : entry'[c] = entry[c]
    PROVE  CallOf' = [CallOf EXCEPT ![b] = CallPhase(b)']
<1>1. \A c \in Builds \ {b} : CallPhase(c)' = CallPhase(c)
  BY DEF TypeOK, CallPhase
<1> QED
  BY <1>1 DEF CallOf

LEMMA SamePhases ==
    ASSUME UNCHANGED <<stage, entry>>
    PROVE  CallOf' = CallOf
BY DEF CallOf, CallPhase

(* A step that goes from one stage to another of the same phase.           *)
LEMMA PhaseStays ==
    ASSUME TypeOK, NEW b \in Builds, NEW s \in Stages, entry' = entry,
           stage' = [stage EXCEPT ![b] = s], CallPhase(b)' = CallPhase(b)
    PROVE  CallOf' = CallOf
<1>1. CallOf' = [CallOf EXCEPT ![b] = CallPhase(b)]
  BY OnePhase
<1> QED
  BY <1>1 DEF CallOf

LEMMA PhaseStep ==
    ASSUME Inv, NEW b \in Builds,
           Asking(b) \/ MakeDir(b) \/ Returning(b) \/ Cloned(b) \/ Push(b)
    PROVE  \/ CallOf' = CallOf /\ ctx' = ctx
           \/ Call!CallStep(b)
<1> USE DEF Inv
<1>1. UNCHANGED <<ctx, entry>>
  BY AskingGoes, ReturningReturns DEF MakeDir, Cloned, Push, Return, locals
<1>2. CallOf[b] = CallPhase(b)
  BY DEF CallOf
<1>3. CASE Returning(b)
  <2>1. PICK result \in {"ok", "err"} : stage' = [stage EXCEPT ![b] = result]
    BY <1>3, ReturningReturns DEF Return
  <2>2. CallPhase(b)' = result
    BY <2>1 DEF CallPhase, TypeOK
  <2>3. CallOf' = [CallOf EXCEPT ![b] = result]
    BY <1>1, <2>1, <2>2, OnePhase DEF Stages
  <2>4. CASE NoDefaultBranch(b)
    <3>1. result = "err" /\ CallPhase(b) = "branch"
      BY <2>1, <2>4 DEF NoDefaultBranch, Return, TypeOK, CallPhase
    <3> QED
      BY <1>1, <1>2, <2>3, <3>1 DEF CallOf, Call!CallStep, Call!BranchAnswered
  <2>5. CASE CloneFails(b) \/ NoDockerfile(b)
    <3>1. result = "err" /\ CallPhase(b) \in {"fetch", "clone", "prepare"}
      BY <2>1, <2>5 DEF CloneFails, NoDockerfile, Return, TypeOK, CallPhase
    <3> QED
      BY <1>1, <1>2, <2>3, <3>1 DEF CallOf, Call!CallStep, Call!FetchFails
  <2>6. CASE BuildxFails(b) \/ BuildxDone(b)
    <3>1. \/ CallPhase(b) = "prepare" /\ result = "err"
          \/ CallPhase(b) = "docker"
      BY <2>1, <2>6 DEF BuildxFails, BuildxDone, CallPhase, Return, TypeOK
    <3> QED
      BY <1>1, <1>2, <2>3, <3>1
         DEF CallOf, Call!CallStep, Call!FetchFails, Call!DockerReturns
  <2> QED
    BY <1>3, <2>4, <2>5, <2>6 DEF Returning
<1>4. CASE StartBuildx(b)
  <2>1. /\ stage[b] = "build" /\ stage' = [stage EXCEPT ![b] = "running"]
        /\ ~ContextDone(b)
    BY <1>4 DEF StartBuildx, Goto
  <2>2. CallPhase(b) = "prepare" /\ CallPhase(b)' = "docker"
    BY <2>1 DEF CallPhase, TypeOK
  <2>3. CallOf' = [CallOf EXCEPT ![b] = "docker"]
    BY <1>1, <2>1, <2>2, OnePhase DEF Stages
  <2>4. ~Call!ContextDone(b)
    BY <2>1 DEF ContextDone, Call!ContextDone
  <2> QED
    BY <1>1, <1>2, <2>2, <2>3, <2>4 DEF CallOf, Call!CallStep, Call!StartDocker
<1>5. CASE NoDir(b)
  <2>1. stage[b] = "mkdir" /\ stage' = [stage EXCEPT ![b] = "err"]
    BY <1>5 DEF NoDir, Goto
  <2>2. CallPhase(b) \in {"branch", "prepare"} /\ CallPhase(b)' = "err"
    BY <2>1 DEF CallPhase, TypeOK
  <2>3. CallOf' = [CallOf EXCEPT ![b] = "err"]
    BY <1>1, <2>1, <2>2, OnePhase DEF Stages
  <2> QED
    BY <1>1, <1>2, <2>2, <2>3
       DEF CallOf, Call!CallStep, Call!BranchAnswered, Call!FetchFails
<1>6. CASE ValidateBranch(b) \/ GetDefaultBranch(b)
  <2>1. /\ stage[b] \in {"validate", "default"}
        /\ stage' = [stage EXCEPT ![b] = "clone"]
    BY <1>6 DEF ValidateBranch, GetDefaultBranch, Goto
  <2>2. CallPhase(b) = "branch" /\ CallPhase(b)' = "fetch"
    BY <2>1 DEF CallPhase, TypeOK
  <2>3. CallOf' = [CallOf EXCEPT ![b] = "fetch"]
    BY <1>1, <2>1, <2>2, OnePhase DEF Stages
  <2> QED
    BY <1>1, <1>2, <2>2, <2>3 DEF CallOf, Call!CallStep, Call!BranchAnswered
<1>7. CASE StartClone(b)
  <2>1. /\ stage[b] = "clone" /\ stage' = [stage EXCEPT ![b] = "cloning"]
        /\ ~ContextDone(b)
    BY <1>7 DEF StartClone, Goto
  <2>2. CallPhase(b) = "fetch" /\ CallPhase(b)' = "clone"
    BY <2>1 DEF CallPhase, TypeOK
  <2>3. CallOf' = [CallOf EXCEPT ![b] = "clone"]
    BY <1>1, <2>1, <2>2, OnePhase DEF Stages
  <2>4. ~Call!ContextDone(b)
    BY <2>1 DEF ContextDone, Call!ContextDone
  <2> QED
    BY <1>1, <1>2, <2>2, <2>3, <2>4 DEF CallOf, Call!CallStep, Call!StartClone
<1>8. CASE Cloned(b)
  <2>1. stage[b] = "cloning" /\ stage' = [stage EXCEPT ![b] = "dockerfile"]
    BY <1>8 DEF Cloned, Goto
  <2>2. CallPhase(b) = "clone" /\ CallPhase(b)' = "prepare"
    BY <2>1 DEF CallPhase, TypeOK
  <2>3. CallOf' = [CallOf EXCEPT ![b] = "prepare"]
    BY <1>1, <2>1, <2>2, OnePhase DEF Stages
  <2> QED
    BY <1>1, <1>2, <2>2, <2>3 DEF CallOf, Call!CallStep, Call!Cloned
<1>9. CASE NilClient(b) \/ NilSection(b)
  BY <1>1, <1>9, SamePhases DEF NilClient, NilSection
<1>10. CASE BranchNotValid(b) \/ CopyDockerfile(b) \/ MakeDir(b) \/ Push(b)
  <2>1. PICK s \in Stages : /\ stage' = [stage EXCEPT ![b] = s]
                            /\ \/ stage[b] = "validate" /\ s = "default"
                               \/ stage[b] = "dockerfile" /\ s = "build"
                               \/ stage[b] = "mkdir" /\ s = AfterMkdir(b)
                               \/ stage[b] = "running" /\ s = "pushed"
    BY <1>10 DEF BranchNotValid, CopyDockerfile, MakeDir, Push, Goto, AfterMkdir, Stages
  <2>2. CallPhase(b)' = CallPhase(b)
    BY <1>1, <2>1 DEF CallPhase, AfterMkdir, TypeOK
  <2> QED
    BY <1>1, <2>1, <2>2, PhaseStays
<1> QED
  BY <1>3, <1>4, <1>5, <1>6, <1>7, <1>8, <1>9, <1>10 DEF Asking

LEMMA NextCall ==
    Inv /\ [Next]_vars => [Call!CallNext]_<<ctx, [b \in Builds |-> CallPhase(b)]>>
<1> SUFFICES ASSUME Inv, [Next]_vars
             PROVE  Call!CallNext \/ (ctx' = ctx /\ CallOf' = CallOf)
  BY DEF CallOf
<1>1. ASSUME NEW b \in Builds, MakeContext(b) PROVE Call!CallNext
  <2>1. /\ stage[b] = "idle" /\ stage' = [stage EXCEPT ![b] = "ready"]
        /\ ctx' = [ctx EXCEPT ![b] = "live"] /\ entry' = entry
    BY <1>1 DEF MakeContext, Goto, locals
  <2>2. CallPhase(b) = "idle" /\ CallPhase(b)' = "idle"
    BY <2>1 DEF CallPhase, Inv, TypeOK
  <2>3. CallOf' = CallOf
    BY <2>1, <2>2, OnePhase DEF CallOf, Inv, Stages
  <2>4. ctx[b] = "none"
    BY <2>1 DEF Inv, ContextsAreMade
  <2> QED
    BY <2>1, <2>3, <2>4 DEF CallOf, Call!CallNext, Call!NewContext
<1>2. ASSUME NEW b \in Builds, EndContext(b) PROVE Call!CallNext
  <2>1. CallOf' = CallOf
    BY <1>2, SamePhases DEF EndContext, locals
  <2> QED
    BY <1>2, <2>1 DEF EndContext, CallOf, Call!CallNext, Call!Cancel, Call!Expire
<1>3. ASSUME NEW b \in Builds, NEW e \in Entries, BuildRepository(b, e)
      PROVE  Call!CallNext
  <2>1. /\ stage[b] = "ready" /\ stage' = [stage EXCEPT ![b] = "mkdir"]
        /\ entry' = [entry EXCEPT ![b] = e] /\ ctx' = ctx
    BY <1>3 DEF BuildRepository, Goto
  <2>2. CallPhase(b) = "idle" /\ CallPhase(b)' \in {"branch", "prepare"}
    BY <2>1 DEF CallPhase, Inv, TypeOK
  <2>3. CallOf' = [CallOf EXCEPT ![b] = CallPhase(b)']
    BY <2>1, OnePhase DEF Inv, TypeOK, Stages
  <2>4. ctx[b] # "none"
    BY <2>1 DEF Inv, ContextsAreMade
  <2> QED
    BY <2>1, <2>2, <2>3, <2>4 DEF CallOf, Call!CallNext, Call!Enter
<1>4. ASSUME NEW b \in Builds,
             Asking(b) \/ MakeDir(b) \/ Returning(b) \/ Cloned(b) \/ Push(b)
      PROVE  Call!CallNext \/ (ctx' = ctx /\ CallOf' = CallOf)
  BY <1>4, PhaseStep DEF Call!CallNext
<1>5. CASE UNCHANGED vars
  BY <1>5, SamePhases DEF vars, locals
<1> QED
  BY <1>1, <1>2, <1>3, <1>4, <1>5 DEF Next, Step, Asking, Returning

(* BuildRepository is the call that TriggerBuild and the scheduler's tasks *)
(* take it to be: a context that is over lets neither a clone nor a docker *)
(* process start, and every error is a return.                             *)
THEOREM Refinement == Spec => ImplementsCall
<1>1. Inv /\ [Next]_vars => [Call!CallNext]_<<ctx, [b \in Builds |-> CallPhase(b)]>>
  BY NextCall
<1> QED
  BY <1>1, InitCall, Invariance, PTL
     DEF Spec, ImplementsCall, Call!CallSpec, Call!callVars

-----------------------------------------------------------------------------
(* Which branch is built, and what a success and a panic mean.             *)

(* A branch the server has, asked for by the repository or the default,    *)
(* told by a client that is not nil.                                       *)
IsChoice(b, r) ==
    r \in Branches /\ r \in {entry[b].ref, DefaultBranch} /\ HasClient(b)

Named(b) == ImageName(entry[b], ref[b])

Chosen(b) ==
    /\ stage[b] \in {"mkdir", "validate", "default", "clone", "cloning"}
         => ref[b] = entry[b].ref
    /\ stage[b] \in {"clone", "cloning"} => IsChoice(b, branch[b])
    /\ stage[b] \in Fetched \cup {"ok"}
         => IF Remote(entry[b]) THEN IsChoice(b, ref[b]) ELSE ref[b] = entry[b].ref
    /\ stage[b] \in {"pushed", "ok"} => Named(b) \in DOMAIN registry

(* A panic is that of a repository with auth "gitea": of the question for  *)
(* its branch when there is no Gitea client, or of its clone when the      *)
(* configuration it is built under has no gitea section.  This is what     *)
(* refutes NilClientIsAnError, and nothing else does.                      *)
PanicsAreNil ==
    alive \/ \E b \in Builds : /\ Remote(entry[b]) /\ entry[b].auth = "gitea"
                             /\ \/ stage[b] = "validate" /\ ~giteaMade
                                \/ stage[b] = "clone" /\ ~section[b]

(* A build that returned no error has pushed an image under the name of    *)
(* the branch it built; of a repository with auth "gitea" only if there is *)
(* a client.                                                               *)
SuccessIsAnImage ==
    \A b \in Builds : stage[b] = "ok" =>
        /\ Named(b) \in DOMAIN registry
        /\ Remote(entry[b]) => IsChoice(b, ref[b])

BranchInv == /\ \A b \in Builds : Chosen(b)
             /\ ImagesAreOfBranches
             /\ PanicsAreNil

(* A step that leaves b alone, or moves it on without choosing.            *)
LEMMA ChosenStays ==
    ASSUME TypeOK, NEW b \in Builds, Chosen(b),
           entry'[b] = entry[b], ref'[b] = ref[b], branch'[b] = branch[b],
           giteaMade' = giteaMade, DOMAIN registry \subseteq DOMAIN registry',
           \/ stage'[b] = stage[b]
           \/ <<stage[b], stage'[b]>> \in {<<"mkdir", "err">>, <<"validate", "default">>,
                <<"clone", "cloning">>, <<"dockerfile", "build">>, <<"build", "running">>,
                <<"mkdir", "validate">>, <<"pushed", "ok">>}
           \/ stage'[b] \in {"err", "ready"}
    PROVE  Chosen(b)'
<1> USE DEF Chosen, IsChoice, HasClient, Named, Fetched
<1>1. CASE stage'[b] = stage[b]
  BY <1>1
<1>2. CASE stage'[b] \in {"err", "ready"}
  BY <1>2
<1>3. CASE <<stage[b], stage'[b]>> \in {<<"mkdir", "err">>, <<"validate", "default">>,
                <<"clone", "cloning">>, <<"dockerfile", "build">>, <<"build", "running">>,
                <<"mkdir", "validate">>, <<"pushed", "ok">>}
  BY <1>3
<1> QED
  BY <1>1, <1>2, <1>3

(* The images are pushed once and for all.                                 *)
LEMMA RegistryGrows ==
    ASSUME TypeOK, [Next]_vars
    PROVE  /\ giteaMade' = giteaMade /\ DOMAIN registry \subseteq DOMAIN registry'
           /\ registry' = registry \/ \E b \in Builds : Push(b)
<1>1. ASSUME NEW b \in Builds, Push(b)
      PROVE  giteaMade' = giteaMade /\ DOMAIN registry \subseteq DOMAIN registry'
  BY <1>1 DEF Push, With, setup
<1>2. ASSUME NEW b \in Builds, Asking(b) \/ Returning(b)
      PROVE  giteaMade' = giteaMade /\ registry' = registry
  <2>1. CASE Returning(b)
    BY <2>1, ReturningReturns DEF Return, setup
  <2>2. CASE Asking(b)
    BY <2>2, AskingGoes DEF Asking, NoDir, ValidateBranch, BranchNotValid, NilClient, NilSection,
       GetDefaultBranch, StartClone, CopyDockerfile, StartBuildx, setup
  <2> QED
    BY <1>2, <2>1, <2>2
<1>3. ASSUME NEW b \in Builds,
             \/ MakeContext(b) \/ EndContext(b) \/ MakeDir(b) \/ Cloned(b)
             \/ \E e \in Entries : BuildRepository(b, e)
      PROVE  giteaMade' = giteaMade /\ registry' = registry
  BY <1>3 DEF MakeContext, EndContext, MakeDir, Cloned, BuildRepository, setup
<1>4. CASE UNCHANGED vars
  BY <1>4 DEF vars, setup
<1> QED
  BY <1>1, <1>2, <1>3, <1>4 DEF Next, Step, Asking, Returning

LEMMA ChosenOwn ==
    ASSUME Inv, [Next]_vars, NEW b \in Builds, Chosen(b),
           \/ MakeContext(b) \/ EndContext(b) \/ Step(b)
           \/ \E e \in Entries : BuildRepository(b, e)
    PROVE  Chosen(b)'
<1>0. /\ TypeOK /\ giteaMade' = giteaMade /\ DOMAIN registry \subseteq DOMAIN registry'
      /\ DefaultBranch \in Branches
  BY RegistryGrows, EntryAssumption DEF Inv
<1>1. CASE MakeContext(b) \/ EndContext(b)
  BY <1>0, <1>1, ChosenStays DEF MakeContext, EndContext, Goto, locals, TypeOK
<1>2. ASSUME NEW e \in Entries, BuildRepository(b, e) PROVE Chosen(b)'
  BY <1>0, <1>2 DEF BuildRepository, Goto, TypeOK, Chosen, Fetched
<1>3. CASE MakeDir(b)
  <2>1. /\ stage[b] = "mkdir" /\ stage'[b] \in {"validate", "dockerfile"}
        /\ stage'[b] = "dockerfile" => ~Remote(entry[b])
        /\ entry' = entry /\ ref' = ref /\ ref[b] = entry[b].ref
    BY <1>0, <1>3, EntryParts DEF MakeDir, AfterMkdir, Goto, TypeOK, Chosen
  <2> QED
    BY <2>1 DEF Chosen, Fetched
<1>4. CASE ValidateBranch(b)
  <2>1. /\ stage[b] = "validate" /\ stage'[b] = "clone" /\ branch'[b] = ref[b]
        /\ entry' = entry /\ ref' = ref /\ HasClient(b) /\ ref[b] \in Branches
    BY <1>0, <1>4 DEF ValidateBranch, Goto, TypeOK
  <2> QED
    BY <1>0, <2>1 DEF Chosen, IsChoice, HasClient, Fetched
<1>5. CASE GetDefaultBranch(b)
  <2>1. /\ stage[b] = "default" /\ stage'[b] = "clone" /\ branch'[b] = DefaultBranch
        /\ entry' = entry /\ ref' = ref /\ HasClient(b)
    BY <1>0, <1>5 DEF GetDefaultBranch, Goto, TypeOK
  <2> QED
    BY <1>0, <2>1 DEF Chosen, IsChoice, HasClient, Fetched
<1>6. CASE NoDir(b) \/ BranchNotValid(b) \/ StartClone(b) \/ CopyDockerfile(b)
           \/ StartBuildx(b) \/ NilClient(b) \/ NilSection(b)
  <2>1. UNCHANGED <<entry, ref, branch>>
    BY <1>6 DEF NoDir, BranchNotValid, StartClone, CopyDockerfile, StartBuildx, NilClient,
       NilSection, locals
  <2>2. \/ stage'[b] = stage[b]
        \/ <<stage[b], stage'[b]>> \in {<<"mkdir", "err">>, <<"validate", "default">>,
                <<"clone", "cloning">>, <<"dockerfile", "build">>, <<"build", "running">>}
    BY <1>0, <1>6 DEF NoDir, BranchNotValid, StartClone, CopyDockerfile, StartBuildx,
       NilClient, NilSection, Goto, TypeOK
  <2> QED
    BY <1>0, <2>1, <2>2, ChosenStays
<1>7. CASE Cloned(b)
  <2>1. /\ stage[b] = "cloning" /\ stage'[b] = "dockerfile" /\ ref'[b] = branch[b]
        /\ entry' = entry /\ Remote(entry[b]) /\ IsChoice(b, branch[b])
    BY <1>0, <1>7 DEF Cloned, Goto, TypeOK, Chosen, Inv, ClonesAreRemote
  <2> QED
    BY <1>0, <2>1 DEF Chosen, IsChoice, HasClient, Fetched
<1>8. CASE Push(b)
  <2>1. /\ stage[b] = "running" /\ stage'[b] = "pushed" /\ UNCHANGED <<entry, ref, branch>>
        /\ Named(b) \in DOMAIN registry'
    BY <1>0, <1>8 DEF Push, Goto, TypeOK, With, Named, locals
  <2> QED
    BY <1>0, <2>1 DEF Chosen, IsChoice, HasClient, Fetched, Named
<1>9. CASE BuildxDone(b)
  BY <1>0, <1>9, ChosenStays DEF BuildxDone, Return, locals, TypeOK
<1>10. CASE NoDefaultBranch(b) \/ CloneFails(b) \/ NoDockerfile(b) \/ BuildxFails(b)
  <2>1. Return(b, "err")
    BY <1>10 DEF NoDefaultBranch, CloneFails, NoDockerfile, BuildxFails
  <2> QED
    BY <1>0, <2>1, ChosenStays DEF Return, locals, TypeOK
<1> QED
  BY <1>1, <1>2, <1>3, <1>4, <1>5, <1>6, <1>7, <1>8, <1>9, <1>10 DEF Step

(* A step of another build.                                                *)
LEMMA OthersStay ==
    ASSUME Inv, NEW b \in Builds, NEW c \in Builds \ {b},
           \/ MakeContext(b) \/ EndContext(b) \/ Step(b)
           \/ \E e \in Entries : BuildRepository(b, e)
    PROVE  /\ stage'[c] = stage[c] /\ entry'[c] = entry[c]
           /\ ref'[c] = ref[c] /\ branch'[c] = branch[c]
<1>0. TypeOK
  BY DEF Inv
<1>1. CASE MakeContext(b) \/ EndContext(b) \/ \E e \in Entries : BuildRepository(b, e)
  BY <1>0, <1>1 DEF MakeContext, EndContext, BuildRepository, Goto, locals, TypeOK
<1>2. CASE Returning(b)
  BY <1>0, <1>2, ReturningReturns DEF Return, locals, TypeOK
<1>3. CASE MakeDir(b) \/ Cloned(b) \/ Push(b)
  BY <1>0, <1>3 DEF MakeDir, Cloned, Push, Goto, locals, TypeOK
<1>4. CASE Asking(b)
  <2>1. entry' = entry /\ ref' = ref /\ stage'[c] = stage[c]
    BY <1>0, <1>4, AskingGoes DEF TypeOK
  <2>2. branch'[c] = branch[c]
    BY <1>0, <1>4 DEF Asking, NoDir, ValidateBranch, BranchNotValid, NilClient, NilSection,
       GetDefaultBranch, StartClone, CopyDockerfile, StartBuildx, locals, TypeOK
  <2> QED
    BY <2>1, <2>2
<1> QED
  BY <1>1, <1>2, <1>3, <1>4 DEF Step, Asking, Returning

LEMMA PanicStep ==
    ASSUME Inv, PanicsAreNil, [Next]_vars
    PROVE  PanicsAreNil'
<1>1. CASE UNCHANGED vars
  BY <1>1 DEF PanicsAreNil, vars, setup, locals
<1>2. ASSUME NEW b \in Builds, alive, NilClient(b) \/ NilSection(b) PROVE PanicsAreNil'
  <2>1. /\ Remote(entry[b])
        /\ \/ stage[b] = "validate" /\ ~HasClient(b)
           \/ stage[b] = "clone" /\ ~HasCredentials(b)
    BY <1>2 DEF NilClient, NilSection, Inv, ClonesAreRemote
  <2>2. entry[b].auth \in {"github", "gitea"}
    BY EntryAssumption DEF Inv, TypeOK
  <2>3. UNCHANGED <<giteaMade, stage, entry, section>>
    BY <1>2 DEF NilClient, NilSection, locals
  <2> QED
    BY <2>1, <2>2, <2>3 DEF HasClient, HasCredentials, PanicsAreNil
<1>3. ASSUME NEW b \in Builds, alive,
             \/ MakeContext(b) \/ EndContext(b) \/ Step(b)
             \/ \E e \in Entries : BuildRepository(b, e),
             ~NilClient(b), ~NilSection(b)
      PROVE  alive'
  <2>1. CASE Returning(b)
    BY <1>3, <2>1, ReturningReturns DEF Return, setup
  <2> QED
    BY <1>3, <2>1 DEF MakeContext, EndContext, BuildRepository, Step, Returning, MakeDir, NoDir,
       ValidateBranch, BranchNotValid, GetDefaultBranch, StartClone, Cloned, CopyDockerfile,
       StartBuildx, Push, setup
<1> QED
  BY <1>1, <1>2, <1>3 DEF Next, PanicsAreNil

LEMMA BranchImageStep ==
    ASSUME Inv, BranchInv, [Next]_vars
    PROVE  ImagesAreOfBranches'
<1>1. CASE registry' = registry
  BY <1>1 DEF BranchInv, ImagesAreOfBranches
<1>2. ASSUME NEW b \in Builds, Push(b) PROVE ImagesAreOfBranches'
  <2> DEFINE image == [entry |-> entry[b], of |-> contents[dir[b]],
                       platforms |-> BuiltPlatforms(entry[b].platforms)]
  <2>1. registry' = With(registry, Named(b), image) /\ stage[b] = "running"
    BY <1>2 DEF Push, Named, Goto
  <2>2. contents[dir[b]] = Expected(b)
    BY <2>1 DEF Inv, Dirty, DirsAreFilled, Fetched
  <2>3. ASSUME Remote(entry[b])
        PROVE  /\ image.of.ref \in Branches /\ image.of.ref \in {entry[b].ref, DefaultBranch}
    BY <2>1, <2>2, <2>3 DEF Expected, BranchInv, Chosen, IsChoice, Fetched
  <2>4. image.entry = entry[b]
    OBVIOUS
  <2>5. Remote(image.entry) =>
          /\ image.of.ref \in Branches /\ image.of.ref \in {image.entry.ref, DefaultBranch}
          /\ image.entry.ref \notin Branches => image.of.ref = DefaultBranch
    BY <2>3, <2>4
  <2> HIDE DEF image
  <2>6. ASSUME NEW n \in DOMAIN registry'
        PROVE  registry'[n] = image \/ (n \in DOMAIN registry /\ registry'[n] = registry[n])
    BY <2>1, <2>6 DEF With
  <2> QED
    BY <2>5, <2>6 DEF BranchInv, ImagesAreOfBranches
<1> QED
  BY <1>1, <1>2, RegistryGrows DEF Inv

LEMMA BranchNext == Inv /\ BranchInv /\ [Next]_vars => BranchInv'
<1> SUFFICES ASSUME Inv, BranchInv, [Next]_vars PROVE BranchInv'
  OBVIOUS
<1>1. ASSUME NEW c \in Builds PROVE Chosen(c)'
  <2>0. TypeOK /\ Chosen(c) /\ giteaMade' = giteaMade
        /\ DOMAIN registry \subseteq DOMAIN registry'
    BY RegistryGrows DEF Inv, BranchInv
  <2>1. CASE UNCHANGED vars
    BY <2>0, <2>1, ChosenStays DEF vars, locals
  <2>2. ASSUME NEW b \in Builds,
               \/ MakeContext(b) \/ EndContext(b) \/ Step(b)
               \/ \E e \in Entries : BuildRepository(b, e)
        PROVE  Chosen(c)'
    BY <2>0, <2>2, ChosenOwn, OthersStay, ChosenStays
  <2> QED
    BY <2>1, <2>2 DEF Next
<1> QED
  BY <1>1, PanicStep, BranchImageStep DEF BranchInv

LEMMA BranchInvariance == Spec => []BranchInv
<1>1. Init => BranchInv
  BY DEF Init, BranchInv, Chosen, ImagesAreOfBranches, PanicsAreNil, Fetched
<1>2. Inv /\ BranchInv /\ [Next]_vars => BranchInv'
  BY BranchNext
<1> QED
  BY <1>1, <1>2, Invariance, PTL DEF Spec

(* isBranchExist: what is built of a remote repository is the branch it    *)
(* names, or the default branch where that is no branch, or was not found; *)
(* never a tag.                                                            *)
THEOREM BranchesAreBuilt == Spec => []ImagesAreOfBranches
<1>1. BranchInv => ImagesAreOfBranches
  BY DEF BranchInv
<1> QED
  BY <1>1, BranchInvariance, PTL

(* BuildRepository returns no error only after an image was pushed under   *)
(* the name of the branch that was cloned.                                 *)
THEOREM SuccessHasImage == Spec => []SuccessIsAnImage
<1>1. BranchInv => SuccessIsAnImage
  BY DEF BranchInv, Chosen, SuccessIsAnImage
<1> QED
  BY <1>1, BranchInvariance, PTL

(* No repository ends the process but one with auth "gitea", and it only   *)
(* where there is no Gitea client or the configuration it is built under   *)
(* has no gitea section.                                                   *)
THEOREM OnlyNilClientsPanic == Spec => []PanicsAreNil
<1>1. BranchInv => PanicsAreNil
  BY DEF BranchInv
<1> QED
  BY <1>1, BranchInvariance, PTL

=============================================================================
