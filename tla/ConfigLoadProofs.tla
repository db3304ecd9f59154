-------------------------- MODULE ConfigLoadProofs ---------------------------
(***************************************************************************)
(* For any set of configurations and lists of any length.  The loop turns  *)
(* each element into the operator's, with the two names and nothing else:  *)
(* that is why the entries are kept, and why their defaults are lost; the  *)
(* default address of the server, set outside the loop, is kept.           *)
(***************************************************************************)
EXTENDS ConfigLoad, SequenceTheorems, TLAPS

Started == {"loop", "copied", "loaded", "running", "panic", "exit"}

Named(e) == [e EXCEPT !.nameRepo = RepoName(e), !.nameImage = NameImage(e)]

(* The provers do not know that "" and "nil" are strings.                  *)
Text == STRING \cup {"", "nil", "0.0.0.0"}

Configurations == [decodes : BOOLEAN, webHttp : [ip : Text, port : Nat],
                   missing : SUBSET Required, gitea : {"absent", "noUrl", "set"},
                   repositories : Seq([Fields -> Text])]

Typed == phase \in Phases /\ posted \in BOOLEAN /\ file \in Configurations

ListIsWalked ==
    phase \in Started =>
        /\ DOMAIN cfg = {"decodes", "webHttp", "missing", "gitea", "repositories"}
        /\ \E S : cfg.repositories \in Seq(S)
        /\ Len(cfg.repositories) = Len(file.repositories)
        /\ i \in 1 .. Len(file.repositories) + 1
        /\ phase = "copied" => i <= Len(file.repositories) /\ repo = file.repositories[i]
        /\ phase \in {"loaded", "running", "panic", "exit"} => i = Len(file.repositories) + 1

(* Elements before the index are named, those after it as they were.       *)
ElementsAreNamed ==
    phase \in Started => \A j \in 1 .. Len(file.repositories) :
        /\ j < i => cfg.repositories[j] = Named(file.repositories[j])
                    /\ ~Nameless(file.repositories[j])
        /\ j > i => cfg.repositories[j] = file.repositories[j]
        /\ j = i /\ phase = "loop" => cfg.repositories[j] = file.repositories[j]

Accepted ==
    /\ phase \in Started => file.decodes /\ RequiredGiven(file)
    /\ phase = "none" => ~posted
    /\ posted /\ phase \notin {"none", "rejected"} =>
         file.decodes /\ Validate(file) /\ phase # "refused"

Inv == Typed /\ ListIsWalked /\ ElementsAreNamed /\ Accepted

-----------------------------------------------------------------------------

(* Filling in the address changes nothing else.                            *)
LEMMA AddressTypes ==
    ASSUME NEW c \in Configurations
    PROVE  /\ WithAddress(c) \in Configurations
           /\ WithAddress(c).repositories = c.repositories
           /\ WithAddress(c).gitea = c.gitea
           /\ DOMAIN WithAddress(c) =
                {"decodes", "webHttp", "missing", "gitea", "repositories"}
<1>1. Address(c.webHttp) \in [ip : Text, port : Nat]
  <2> DEFINE ip == OrElse(c.webHttp.ip, "", "0.0.0.0")
             port == OrElse(c.webHttp.port, 0, 8080)
  <2>1. c.webHttp.ip \in Text /\ c.webHttp.port \in Nat
    BY DEF Configurations
  <2>2. ip \in Text
    BY <2>1 DEF Text, OrElse
  <2>3. port \in Nat
    BY <2>1 DEF OrElse
  <2>4. Address(c.webHttp) = [ip |-> ip, port |-> port]
    BY DEF Address
  <2> HIDE DEF ip, port
  <2> QED
    BY <2>2, <2>3, <2>4
<1> QED
  BY <1>1 DEF WithAddress, Configurations

(* A list with another element at k.                                       *)
LEMMA PutAt ==
    ASSUME NEW S, NEW s \in Seq(S), NEW k \in 1 .. Len(s), NEW v
    PROVE  /\ [s EXCEPT ![k] = v] \in Seq(S \cup {v})
           /\ Len([s EXCEPT ![k] = v]) = Len(s)
           /\ \A j \in 1 .. Len(s) : [s EXCEPT ![k] = v][j] = IF j = k THEN v ELSE s[j]
<1>1. s \in Seq(S \cup {v})
  OBVIOUS
<1> QED
  BY <1>1, ExceptSeq

LEMMA YAMLTypes ==
    ASSUME NEW c \in Configurations
    PROVE  /\ ToYAML(c) \in Configurations /\ ToYAML(c).decodes = c.decodes
           /\ Validate(c) => Validate(ToYAML(c))
<1> DEFINE old == c.repositories
           Plain(e) == [e EXCEPT !.platforms = IF @ = "empty" THEN "nil" ELSE @,
                                 !.nameRepo = "", !.nameImage = ""]
           new == [j \in DOMAIN old |-> Plain(old[j])]
<1>1. old \in Seq([Fields -> Text]) /\ DOMAIN old = 1 .. Len(old) /\ Len(old) \in Nat
  BY DEF Configurations
<1>2. ASSUME NEW e \in [Fields -> Text]
      PROVE  /\ Plain(e) \in [Fields -> Text]
             /\ Plain(e).url = e.url /\ Plain(e).dockerfileUser = e.dockerfileUser
  <2>1. [e EXCEPT !.platforms = IF @ = "empty" THEN "nil" ELSE @] \in [Fields -> Text]
    BY <1>2 DEF Text
  <2>2. Plain(e) \in [Fields -> Text]
    BY <2>1 DEF Text
  <2> QED
    BY <1>2, <2>2 DEF Fields
<1>3. /\ ToYAML(c) = [c EXCEPT !.repositories = new]
      /\ ToYAML(c).repositories = new /\ ToYAML(c).missing = c.missing
      /\ ToYAML(c).gitea = c.gitea /\ ToYAML(c).decodes = c.decodes
  BY DEF ToYAML, Configurations
<1> HIDE DEF Plain
<1>4. \A j \in 1 .. Len(old) : old[j] \in [Fields -> Text]
  BY <1>1
<1>5. DOMAIN new = 1 .. Len(old) /\ \A j \in 1 .. Len(old) : new[j] = Plain(old[j])
  BY <1>1
<1>6. new \in Seq([Fields -> Text]) /\ Len(new) = Len(old)
  BY <1>1, <1>2, <1>4
<1> HIDE DEF new
<1>7. ToYAML(c) \in Configurations
  BY <1>3, <1>6 DEF Configurations
<1>8. Validate(c) => Validate(ToYAML(c))
  <2>1. ASSUME Validate(c), NEW j \in DOMAIN new PROVE ~Nameless(new[j])
    <3>1. j \in 1 .. Len(old) /\ new[j] = Plain(old[j]) /\ old[j] \in [Fields -> Text]
      BY <2>1, <1>4, <1>5
    <3>2. ~Nameless(old[j])
      BY <2>1, <3>1, <1>1 DEF Validate
    <3> QED
      BY <1>2, <3>1, <3>2 DEF Nameless
  <2>2. Validate(c) => RequiredGiven(ToYAML(c))
    BY <1>3, <1>6 DEF Validate, RequiredGiven
  <2> QED
    BY <1>3, <2>1, <2>2 DEF Validate
<1> QED
  BY <1>3, <1>7, <1>8

LEMMA FileTypes ==
    ASSUME Typed
    PROVE  /\ file.repositories \in Seq([Fields -> Text]) /\ Len(file.repositories) \in Nat
           /\ DOMAIN file.repositories = 1 .. Len(file.repositories)
           /\ \A j \in 1 .. Len(file.repositories) : file.repositories[j] \in [Fields -> Text]
BY DEF Typed, Configurations

LEMMA InvInit == Init => Inv
<1>1. Seq([Fields -> STRING]) \subseteq Seq([Fields -> Text])
  <2>1. [Fields -> STRING] \subseteq [Fields -> Text]
    BY DEF Text
  <2> QED
    BY <2>1
<1>2. [ip : STRING, port : Nat] \subseteq [ip : Text, port : Nat]
  BY DEF Text
<1>3. Raws \subseteq Configurations
  BY RawAssumption, <1>1, <1>2 DEF Configurations
<1> QED
  BY <1>3
     DEF Init, Inv, Typed, Configurations, Phases, Started, ListIsWalked, ElementsAreNamed,
         Accepted

LEMMA InvStep ==
    ASSUME Inv, [Next]_vars
    PROVE  Inv'
<1> USE DEF Inv, Phases, Started
<1> DEFINE List == file.repositories
<1>0. /\ List \in Seq([Fields -> Text]) /\ Len(List) \in Nat
      /\ \A j \in 1 .. Len(List) : List[j] \in [Fields -> Text]
  BY FileTypes
<1>1. CASE Post
  BY <1>1, YAMLTypes DEF Post, Typed, ListIsWalked, ElementsAreNamed, Accepted
<1>2. CASE Write
  BY <1>2 DEF Write, Typed, ListIsWalked, ElementsAreNamed, Accepted
<1>3. CASE LoadConfig
  <2>1. Typed' /\ Accepted'
    BY <1>3 DEF LoadConfig, Typed, Accepted, Validate
  <2>0. phase' \in Started => i' = 1 /\ phase' = "loop" /\ cfg' = WithAddress(file)
    BY <1>3 DEF LoadConfig
  <2>2. ListIsWalked'
    BY <1>3, <1>0, <2>0, AddressTypes DEF LoadConfig, ListIsWalked, Typed
  <2>3. ElementsAreNamed'
    BY <1>3, <1>0, <2>0, AddressTypes DEF LoadConfig, ElementsAreNamed, Typed
  <2> QED
    BY <2>1, <2>2, <2>3
<1>4. CASE FillDefaults
  <2> DEFINE v == WithDefaults(cfg.repositories[i])
  <2>1. /\ DOMAIN cfg' = DOMAIN cfg
        /\ cfg'.repositories = [cfg.repositories EXCEPT ![i] = v]
        /\ i \in 1 .. Len(cfg.repositories)
    BY <1>4, <1>0 DEF FillDefaults, ListIsWalked
  <2>2. /\ \E S : cfg'.repositories \in Seq(S)
        /\ Len(cfg'.repositories) = Len(List)
        /\ \A j \in 1 .. Len(List) : j # i => cfg'.repositories[j] = cfg.repositories[j]
    <3>1. PICK S : cfg.repositories \in Seq(S)
      BY <1>4 DEF FillDefaults, ListIsWalked
    <3>2. Len(cfg.repositories) = Len(List)
      BY <1>4 DEF FillDefaults, ListIsWalked
    <3> HIDE DEF v
    <3>3. [cfg.repositories EXCEPT ![i] = v] \in Seq(S \cup {v})
      BY <2>1, <3>1, PutAt
    <3> QED
      BY <2>1, <3>1, <3>2, <3>3, PutAt
  <2>3. repo' = List[i]
    BY <1>4, <2>1 DEF FillDefaults, ListIsWalked, ElementsAreNamed
  <2> QED
    BY <1>4, <1>0, <2>1, <2>2, <2>3
       DEF FillDefaults, Typed, ListIsWalked, ElementsAreNamed, Accepted
<1>5. CASE Refuse
  BY <1>5, <1>0 DEF Refuse, Typed, ListIsWalked, ElementsAreNamed, Accepted, Validate
<1>6. CASE PutBack
  <2> DEFINE v == Named(repo)
  <2>1. /\ DOMAIN cfg' = DOMAIN cfg
        /\ cfg'.repositories = [cfg.repositories EXCEPT ![i] = v]
        /\ i \in 1 .. Len(cfg.repositories)
    BY <1>6, <1>0 DEF PutBack, ListIsWalked, Named
  <2>2. /\ \E S : cfg'.repositories \in Seq(S)
        /\ Len(cfg'.repositories) = Len(List)
        /\ \A j \in 1 .. Len(List) :
             cfg'.repositories[j] = IF j = i THEN v ELSE cfg.repositories[j]
    <3>1. PICK S : cfg.repositories \in Seq(S)
      BY <1>6 DEF PutBack, ListIsWalked
    <3>2. Len(cfg.repositories) = Len(List)
      BY <1>6 DEF PutBack, ListIsWalked
    <3> HIDE DEF v
    <3>3. [cfg.repositories EXCEPT ![i] = v] \in Seq(S \cup {v})
      BY <2>1, <3>1, PutAt
    <3> QED
      BY <2>1, <3>1, <3>2, <3>3, PutAt
  <2>3. repo = List[i] /\ ~Nameless(List[i])
    BY <1>6 DEF PutBack, ListIsWalked
  <2>4. ListIsWalked'
    BY <1>6, <1>0, <2>1, <2>2 DEF PutBack, ListIsWalked
  <2>5. ElementsAreNamed'
    BY <1>6, <1>0, <2>1, <2>2, <2>3 DEF PutBack, ListIsWalked, ElementsAreNamed
  <2> QED
    BY <1>6, <2>4, <2>5 DEF PutBack, Typed, Accepted
<1>7. CASE Loaded
  <2>1. Typed' /\ Accepted' /\ ElementsAreNamed'
    BY <1>7, <1>0 DEF Loaded, Typed, ElementsAreNamed, Accepted
  <2>2. ListIsWalked'
    BY <1>7, <1>0 DEF Loaded, ListIsWalked
  <2> QED
    BY <2>1, <2>2
<1>8. CASE StartMain
  BY <1>8 DEF StartMain, Typed, ListIsWalked, ElementsAreNamed, Accepted
<1>9. CASE UNCHANGED vars
  BY <1>9 DEF vars, Typed, ListIsWalked, ElementsAreNamed, Accepted
<1> QED
  BY <1>1, <1>2, <1>3, <1>4, <1>5, <1>6, <1>7, <1>8, <1>9 DEF Next

LEMMA Invariance == Spec => []Inv
BY InvInit, InvStep, PTL DEF Spec

(* The index stays within the list.                                        *)
THEOREM TypeCorrect == Spec => []TypeOK
<1>1. Inv => TypeOK
  BY DEF Inv, Typed, Configurations, ListIsWalked, Started, TypeOK
<1> QED
  BY <1>1, Invariance, PTL

(* What the API answered "config updated" to loads at the next start.      *)
THEOREM PostedLoads == Spec => []PostedIsLoadable
<1>1. Inv => PostedIsLoadable
  BY DEF Inv, Accepted, PostedIsLoadable
<1> QED
  BY <1>1, Invariance, PTL

(* An operator can post what the program runs with.                        *)
THEOREM LoadedPosts == Spec => []LoadedIsPostable
<1>1. ASSUME Inv, phase \in {"loaded", "running"} PROVE Validate(file)
  <2>1. DOMAIN file.repositories = 1 .. Len(file.repositories) /\ Len(file.repositories) \in Nat
    BY <1>1 DEF Inv, Typed, Configurations
  <2>2. \A j \in 1 .. Len(file.repositories) : j < i
    BY <1>1, <2>1 DEF Inv, ListIsWalked, Started
  <2> QED
    BY <1>1, <2>1, <2>2 DEF Inv, Accepted, ElementsAreNamed, Started, Validate
<1>2. Inv => LoadedIsPostable
  BY <1>1 DEF LoadedIsPostable
<1> QED
  BY <1>2, Invariance, PTL

(* Nothing an operator wrote is lost or moved to another index.            *)
THEOREM NothingIsLost == Spec => []EntriesAreKept
<1>1. ASSUME Inv, phase = "loaded", NEW j \in DOMAIN file.repositories,
             NEW f \in Fields \ {"nameRepo", "nameImage"}
      PROVE  cfg.repositories[j][f] = file.repositories[j][f]
  <2>1. /\ j \in 1 .. Len(file.repositories) /\ j < i
        /\ file.repositories[j] \in [Fields -> Text]
    BY <1>1 DEF Inv, Typed, Configurations, ListIsWalked, Started
  <2>2. cfg.repositories[j] = Named(file.repositories[j])
    BY <1>1, <2>1 DEF Inv, ElementsAreNamed, Started
  <2> QED
    BY <2>1, <2>2 DEF Named
<1>2. Inv => EntriesAreKept
  BY <1>1 DEF EntriesAreKept
<1> QED
  BY <1>2, Invariance, PTL

-----------------------------------------------------------------------------
(* Loading as a whole.                                                     *)

InMain == {"loaded", "running", "panic", "exit"}

LoadedFrom(c) ==
    [WithAddress(c) EXCEPT !.repositories =
        [j \in DOMAIN c.repositories |-> Named(c.repositories[j])]]

(* The loop touches nothing but the list.                                  *)
OnlyListChanges ==
    phase \in Started => cfg = [WithAddress(file) EXCEPT !.repositories = cfg.repositories]

(* A file that /config/update wrote has nothing left for ToYAML to drop.   *)
SavedIsPlain ==
    posted /\ phase \notin {"none", "rejected"} => ToYAML(file) = file

(* What was refused does not decode or has a fault Validate finds.         *)
RefusedForCause == phase \in {"rejected", "refused"} => ~(file.decodes /\ Validate(file))

WholeInv ==
    /\ Inv /\ OnlyListChanges /\ SavedIsPlain /\ RefusedForCause
    /\ phase = "panic" => file.gitea = "absent"
    /\ phase = "running" => file.gitea # "absent"

(* LoadConfig computes LoadedFrom.                                         *)
LoadIsTheMap == phase \in InMain => cfg = LoadedFrom(file)

(* Of the configurations that decode LoadConfig and Validate accept the    *)
(* same ones, although each has a test of its own.                         *)
LoaderAgreesWithValidate ==
    /\ phase \in {"rejected", "refused"} => ~(file.decodes /\ Validate(file))
    /\ phase \in InMain => file.decodes /\ Validate(file)

(* GetConfig shows what the file says with the address filled in, and      *)
(* literally that when the file was written by /config/update; what it     *)
(* shows, posted and loaded again, is shown unchanged.                     *)
ShownIsSaved ==
    phase \in InMain => /\ ToYAML(cfg) = WithAddress(ToYAML(file))
                        /\ posted => ToYAML(cfg) = WithAddress(file)
                        /\ ToYAML(LoadedFrom(ToYAML(cfg))) = ToYAML(cfg)

(* The fields of an entry LoadConfig has defaults for.                     *)
Defaulted == {"auth", "branch", "platforms", "dockerfileProject"}

(* None of the entries' defaults reaches the configuration the program     *)
(* runs with.                                                              *)
NoDefaultSurvives ==
    phase \in InMain =>
        \A j \in DOMAIN file.repositories : \A f \in Defaulted :
            cfg.repositories[j][f] = file.repositories[j][f]

(* main panics only on a configuration without a gitea section, and runs   *)
(* only with one that has a url.                                           *)
StartsUnlessNoGitea ==
    /\ phase = "panic" => file.gitea = "absent"
    /\ phase = "running" => file.gitea = "set"

(* A record with another list.                                             *)
LEMMA PutList ==
    ASSUME NEW c \in Configurations, NEW s, NEW t
    PROVE  /\ [c EXCEPT !.repositories = c.repositories] = c
           /\ [[c EXCEPT !.repositories = s] EXCEPT !.repositories = t]
                = [c EXCEPT !.repositories = t]
           /\ [c EXCEPT !.repositories = s].repositories = s
BY DEF Configurations

(* The list put into a configuration that differs in nothing but the list. *)
LEMMA ListReplaced ==
    ASSUME NEW f \in Configurations, NEW c, NEW l, NEW d, NEW s,
           c = [f EXCEPT !.repositories = l], d = [c EXCEPT !.repositories = s]
    PROVE  d = [f EXCEPT !.repositories = s] /\ d.repositories = s
<1>1. d = [f EXCEPT !.repositories = s]
  BY PutList
<1> QED
  BY <1>1 DEF Configurations

(* Filling in the address does not depend on the list.                     *)
LEMMA AddressAndList ==
    ASSUME NEW c \in Configurations, NEW s
    PROVE  /\ WithAddress([c EXCEPT !.repositories = s])
                = [WithAddress(c) EXCEPT !.repositories = s]
           /\ WithAddress(WithAddress(c)) = WithAddress(c)
<1>1. Address(Address(c.webHttp)) = Address(c.webHttp)
  <2> DEFINE ip == OrElse(c.webHttp.ip, "", "0.0.0.0")
             port == OrElse(c.webHttp.port, 0, 8080)
  <2>1. c.webHttp.port \in Nat
    BY DEF Configurations
  <2>2. ip # ""
    BY DEF OrElse
  <2>3. port # 0
    BY <2>1 DEF OrElse
  <2>4. Address(c.webHttp) = [ip |-> ip, port |-> port]
    BY DEF Address
  <2> HIDE DEF ip, port
  <2> DEFINE full == [ip |-> ip, port |-> port]
  <2>5. full.ip = ip /\ full.port = port
    OBVIOUS
  <2> HIDE DEF full
  <2> DEFINE again == OrElse(full.ip, "", "0.0.0.0")
             portAgain == OrElse(full.port, 0, 8080)
  <2>6. again = ip
    BY <2>2, <2>5 DEF OrElse
  <2>7. portAgain = port
    BY <2>3, <2>5 DEF OrElse
  <2>8. Address(full) = [ip |-> again, port |-> portAgain]
    BY DEF Address
  <2> HIDE DEF again, portAgain
  <2> QED
    BY <2>4, <2>6, <2>7, <2>8 DEF full
<1> QED
  BY <1>1 DEF WithAddress, Configurations

(* What ToYAML makes of one entry.                                         *)
Plain(e) ==
    [e EXCEPT !.platforms = IF @ = "empty" THEN "nil" ELSE @,
              !.nameRepo = "", !.nameImage = ""]

LEMMA YAMLIsPlain ==
    ASSUME NEW c
    PROVE  ToYAML(c) = [c EXCEPT !.repositories =
                          [j \in DOMAIN c.repositories |-> Plain(c.repositories[j])]]
BY DEF ToYAML, Plain

LEMMA PlainForgetsNames ==
    ASSUME NEW e \in [Fields -> Text]
    PROVE  Plain(Named(e)) = Plain(e) /\ Plain(Plain(e)) = Plain(e)
<1>1. /\ DOMAIN Named(e) = Fields /\ DOMAIN Plain(e) = Fields
      /\ DOMAIN Plain(Named(e)) = Fields /\ DOMAIN Plain(Plain(e)) = Fields
  BY DEF Named, Plain
<1>2. \A f \in Fields : Plain(Named(e))[f] = Plain(e)[f]
  BY DEF Named, Plain, Fields
<1>3. \A f \in Fields : Plain(Plain(e))[f] = Plain(e)[f]
  BY DEF Plain, Fields
<1>4. /\ Plain(Named(e)) = [f \in Fields |-> Plain(Named(e))[f]]
      /\ Plain(Plain(e)) = [f \in Fields |-> Plain(Plain(e))[f]]
      /\ Plain(e) = [f \in Fields |-> Plain(e)[f]]
  BY <1>1 DEF Plain
<1> QED
  BY <1>2, <1>3, <1>4

LEMMA YAMLForgetsNames ==
    ASSUME NEW c \in Configurations
    PROVE  /\ ToYAML(LoadedFrom(c)) = WithAddress(ToYAML(c))
           /\ ToYAML(ToYAML(c)) = ToYAML(c)
<1> DEFINE D == DOMAIN c.repositories
           plain == [j \in D |-> Plain(c.repositories[j])]
           named == [j \in D |-> Named(c.repositories[j])]
<1>1. \A j \in D : c.repositories[j] \in [Fields -> Text]
  BY DEF Configurations
<1>2. ToYAML(c) = [c EXCEPT !.repositories = plain]
  BY YAMLIsPlain
<1>3. LoadedFrom(c) = [WithAddress(c) EXCEPT !.repositories = named]
  BY DEF LoadedFrom
<1> HIDE DEF D
<1>4. [j \in DOMAIN named |-> Plain(named[j])] = plain
  BY <1>1, PlainForgetsNames DEF D
<1>5. [j \in DOMAIN plain |-> Plain(plain[j])] = plain
  BY <1>1, PlainForgetsNames DEF D
<1> HIDE DEF plain, named
<1>6. ToYAML(LoadedFrom(c)) = WithAddress(ToYAML(c))
  <2>0. WithAddress(c) \in Configurations
    BY AddressTypes
  <2>1. LoadedFrom(c).repositories = named
    BY <1>3, <2>0 DEF Configurations
  <2>2. ToYAML(LoadedFrom(c)) = [LoadedFrom(c) EXCEPT !.repositories = plain]
    BY <1>4, <2>1, YAMLIsPlain
  <2>3. ToYAML(LoadedFrom(c)) = [WithAddress(c) EXCEPT !.repositories = plain]
    BY <1>3, <2>0, <2>2, PutList
  <2> QED
    BY <1>2, <2>3, AddressAndList
<1>7. ToYAML(ToYAML(c)) = [c EXCEPT !.repositories = plain]
  <2>1. ToYAML(c).repositories = plain
    BY <1>2, PutList
  <2>2. ToYAML(ToYAML(c)) = [ToYAML(c) EXCEPT !.repositories = plain]
    BY <1>5, <2>1, YAMLIsPlain
  <2> QED
    BY <1>2, <2>2, PutList
<1> QED
  BY <1>2, <1>6, <1>7

LEMMA WholeInit == Init => WholeInv
BY InvInit DEF Init, WholeInv, OnlyListChanges, SavedIsPlain, RefusedForCause, Started

LEMMA WholeStep ==
    ASSUME WholeInv, [Next]_vars
    PROVE  WholeInv'
<1> USE DEF WholeInv
<1>0. Inv' /\ Inv /\ file \in Configurations
  BY InvStep DEF Inv, Typed
<1>1. CASE Post
  BY <1>0, <1>1, YAMLForgetsNames, YAMLTypes
     DEF Post, Started, OnlyListChanges, SavedIsPlain, RefusedForCause
<1>2. CASE Write
  BY <1>0, <1>2 DEF Write, Started, OnlyListChanges, SavedIsPlain, RefusedForCause, Inv, Accepted
<1>3. CASE LoadConfig
  <2>0. WithAddress(file) \in Configurations
    BY <1>0, AddressTypes
  <2>1. OnlyListChanges'
    BY <1>3, <2>0, PutList DEF LoadConfig, OnlyListChanges, Started
  <2>2. RefusedForCause'
    BY <1>3 DEF LoadConfig, RefusedForCause, Validate
  <2> QED
    BY <1>0, <1>3, <2>1, <2>2 DEF LoadConfig, SavedIsPlain
<1>4. CASE FillDefaults
  <2> DEFINE s == [cfg.repositories EXCEPT ![i] = WithDefaults(cfg.repositories[i])]
  <2>1. cfg = [WithAddress(file) EXCEPT !.repositories = cfg.repositories]
    BY <1>4 DEF FillDefaults, OnlyListChanges, Started
  <2>2. cfg' = [cfg EXCEPT !.repositories = s]
    BY <1>4 DEF FillDefaults
  <2> HIDE DEF s
  <2>3. WithAddress(file) \in Configurations
    BY <1>0, AddressTypes
  <2>4. cfg' = [WithAddress(file) EXCEPT !.repositories = s] /\ cfg'.repositories = s
    <3> HIDE DEF WholeInv
    <3> QED
      BY <2>1, <2>2, <2>3, ListReplaced
  <2>5. OnlyListChanges'
    BY <1>4, <2>4 DEF FillDefaults, OnlyListChanges
  <2> QED
    BY <1>0, <1>4, <2>5 DEF FillDefaults, SavedIsPlain, RefusedForCause
<1>5. CASE Refuse
  <2>1. repo = file.repositories[i] /\ i \in DOMAIN file.repositories
    BY <1>0, <1>5, FileTypes DEF Refuse, Inv, ListIsWalked, Started
  <2>2. ~(file.decodes /\ Validate(file))
    BY <1>5, <2>1 DEF Refuse, Validate
  <2> QED
    BY <1>0, <1>5, <2>2 DEF Refuse, Started, OnlyListChanges, SavedIsPlain, RefusedForCause
<1>6. CASE PutBack
  <2> DEFINE s == [cfg.repositories EXCEPT ![i] = Named(repo)]
  <2>1. cfg = [WithAddress(file) EXCEPT !.repositories = cfg.repositories]
    BY <1>6 DEF PutBack, OnlyListChanges, Started
  <2>2. cfg' = [cfg EXCEPT !.repositories = s]
    BY <1>6 DEF PutBack, Named
  <2> HIDE DEF s
  <2>3. WithAddress(file) \in Configurations
    BY <1>0, AddressTypes
  <2>4. cfg' = [WithAddress(file) EXCEPT !.repositories = s] /\ cfg'.repositories = s
    <3> HIDE DEF WholeInv
    <3> QED
      BY <2>1, <2>2, <2>3, ListReplaced
  <2>5. OnlyListChanges'
    BY <1>6, <2>4 DEF PutBack, OnlyListChanges
  <2> QED
    BY <1>0, <1>6, <2>5 DEF PutBack, SavedIsPlain, RefusedForCause
<1>7. CASE Loaded
  BY <1>0, <1>7 DEF Loaded, Started, OnlyListChanges, SavedIsPlain, RefusedForCause
<1>8. CASE StartMain
  <2>1. cfg.gitea = file.gitea
    <3>1. cfg = [WithAddress(file) EXCEPT !.repositories = cfg.repositories]
      BY <1>8 DEF StartMain, OnlyListChanges, Started
    <3>2. cfg.gitea = WithAddress(file).gitea
      BY <1>0, <3>1, AddressTypes DEF Configurations
    <3> QED
      BY <1>0, <3>2, AddressTypes
  <2> QED
    BY <1>0, <1>8, <2>1
       DEF StartMain, Started, OnlyListChanges, SavedIsPlain, RefusedForCause
<1>9. CASE UNCHANGED vars
  BY <1>0, <1>9 DEF vars, OnlyListChanges, SavedIsPlain, RefusedForCause
<1> QED
  BY <1>1, <1>2, <1>3, <1>4, <1>5, <1>6, <1>7, <1>8, <1>9 DEF Next

LEMMA WholeInvariance == Spec => []WholeInv
BY WholeInit, WholeStep, PTL DEF Spec

(* The loop, whose element copies and write-backs interleave, comes to one *)
(* map over the list.                                                      *)
LEMMA LoopIsMap ==
    ASSUME WholeInv, phase \in InMain
    PROVE  cfg = LoadedFrom(file)
<1> DEFINE named == [j \in DOMAIN file.repositories |-> Named(file.repositories[j])]
<1>0. Inv /\ file \in Configurations /\ phase \in Started
  BY DEF WholeInv, Inv, Typed, InMain, Started
<1>1. DOMAIN file.repositories = 1 .. Len(file.repositories) /\ Len(file.repositories) \in Nat
  BY <1>0, FileTypes DEF Inv
<1>2. \A j \in 1 .. Len(file.repositories) : cfg.repositories[j] = Named(file.repositories[j])
  <2>1. i = Len(file.repositories) + 1
    BY <1>0 DEF Inv, ListIsWalked, InMain
  <2> QED
    BY <1>0, <1>1, <2>1 DEF Inv, ElementsAreNamed
<1>3. PICK S : cfg.repositories \in Seq(S)
  BY <1>0 DEF Inv, ListIsWalked
<1>4. cfg.repositories = [j \in 1 .. Len(cfg.repositories) |-> cfg.repositories[j]]
  BY <1>3
<1>5. Len(cfg.repositories) = Len(file.repositories)
  BY <1>0 DEF Inv, ListIsWalked
<1>6. cfg.repositories = named
  BY <1>1, <1>2, <1>4, <1>5
<1> HIDE DEF named
<1>7. cfg = [WithAddress(file) EXCEPT !.repositories = named]
  BY <1>0, <1>6 DEF WholeInv, OnlyListChanges
<1> QED
  BY <1>7 DEF named, LoadedFrom

(* LoadConfig as a function of the file, for lists of any length: it fills *)
(* in the address, names the entries and changes nothing else.             *)
THEOREM LoadIsCorrect == Spec => []LoadIsTheMap
<1>1. WholeInv => LoadIsTheMap
  BY LoopIsMap DEF LoadIsTheMap
<1> QED
  BY <1>1, WholeInvariance, PTL

(* The two tests of a configuration accept the same ones: what Validate    *)
(* would accept LoadConfig never refuses, and the other way round.         *)
THEOREM OneTest == Spec => []LoaderAgreesWithValidate
<1>1. ASSUME WholeInv, phase \in InMain PROVE file.decodes /\ Validate(file)
  <2>1. DOMAIN file.repositories = 1 .. Len(file.repositories) /\ Len(file.repositories) \in Nat
    BY <1>1, FileTypes DEF WholeInv, Inv
  <2>2. \A j \in 1 .. Len(file.repositories) : j < i
    BY <1>1, <2>1 DEF WholeInv, Inv, ListIsWalked, Started, InMain
  <2> QED
    BY <1>1, <2>1, <2>2
       DEF WholeInv, Inv, Accepted, ElementsAreNamed, Started, InMain, Validate
<1>2. WholeInv => LoaderAgreesWithValidate
  BY <1>1 DEF WholeInv, RefusedForCause, LoaderAgreesWithValidate
<1> QED
  BY <1>2, WholeInvariance, PTL

(* Saving the configuration the API shows writes the file it came from,    *)
(* with the address the server listens on filled in.                       *)
THEOREM RoundTrip == Spec => []ShownIsSaved
<1>1. ASSUME WholeInv, phase \in InMain
      PROVE  /\ ToYAML(cfg) = WithAddress(ToYAML(file))
             /\ posted => ToYAML(cfg) = WithAddress(file)
             /\ ToYAML(LoadedFrom(ToYAML(cfg))) = ToYAML(cfg)
  <2>0. file \in Configurations /\ ToYAML(file) \in Configurations
    BY <1>1, YAMLTypes DEF WholeInv, Inv, Typed
  <2>1. ToYAML(cfg) = WithAddress(ToYAML(file))
    BY <1>1, <2>0, LoopIsMap, YAMLForgetsNames
  <2>2. posted => ToYAML(cfg) = WithAddress(file)
    BY <1>1, <2>1 DEF WholeInv, SavedIsPlain, InMain
  <2> DEFINE shown == ToYAML(cfg)
  <2>3. shown \in Configurations /\ WithAddress(shown) = shown
    BY <2>0, <2>1, AddressTypes, AddressAndList
  <2>4. ToYAML(shown) = shown
    <3>4. shown.repositories = ToYAML(file).repositories
      BY <2>0, <2>1, AddressTypes
    <3> DEFINE plain(c) == [j \in DOMAIN c.repositories |-> Plain(c.repositories[j])]
    <3>5. /\ ToYAML(shown) = [shown EXCEPT !.repositories = plain(shown)]
          /\ ToYAML(ToYAML(file)) = [ToYAML(file) EXCEPT !.repositories = plain(ToYAML(file))]
      BY YAMLIsPlain
    <3>6. ToYAML(ToYAML(file)) = ToYAML(file)
      BY <2>0, YAMLForgetsNames
    <3>7. plain(ToYAML(file)) = ToYAML(file).repositories
      <4>1. ToYAML(file) = [ToYAML(file) EXCEPT !.repositories = plain(ToYAML(file))]
        BY <3>5, <3>6
      <4> HIDE DEF plain
      <4> QED
        BY <2>0, <4>1 DEF Configurations
    <3>8. plain(shown) = plain(ToYAML(file))
      BY <3>4
    <3> HIDE DEF shown, plain
    <3> QED
      BY <2>3, <3>4, <3>5, <3>7, <3>8, PutList
  <2> HIDE DEF shown
  <2>5. ToYAML(LoadedFrom(shown)) = shown
    BY <2>3, <2>4, YAMLForgetsNames
  <2> QED
    BY <2>1, <2>2, <2>5 DEF shown
<1>2. WholeInv => ShownIsSaved
  BY <1>1 DEF ShownIsSaved
<1> QED
  BY <1>2, WholeInvariance, PTL

(* What the run load_defaults shows of one file, of every file: each field *)
(* of an entry that has a default is left as the operator wrote it.        *)
THEOREM DefaultsNeverCount == Spec => []NoDefaultSurvives
<1>1. ASSUME WholeInv, phase \in InMain, NEW j \in DOMAIN file.repositories,
             NEW f \in Defaulted
      PROVE  cfg.repositories[j][f] = file.repositories[j][f]
  <2>1. file \in Configurations /\ file.repositories[j] \in [Fields -> Text]
    BY <1>1, FileTypes DEF WholeInv, Inv, Typed
  <2>2. cfg = [WithAddress(file) EXCEPT !.repositories =
                [k \in DOMAIN file.repositories |-> Named(file.repositories[k])]]
    BY <1>1, LoopIsMap DEF LoadedFrom
  <2>3. cfg.repositories = [k \in DOMAIN file.repositories |-> Named(file.repositories[k])]
    BY <2>1, <2>2, AddressTypes, PutList
  <2>4. cfg.repositories[j] = Named(file.repositories[j])
    BY <1>1, <2>3
  <2> QED
    BY <2>1, <2>4 DEF Named, Defaulted, Fields
<1>2. WholeInv => NoDefaultSurvives
  BY <1>1 DEF NoDefaultSurvives
<1> QED
  BY <1>2, WholeInvariance, PTL

(* The missing gitea section is the only thing in a loaded configuration   *)
(* main panics on; it exits by itself when it cannot make a docker client. *)
THEOREM OnlyGiteaPanics == Spec => []StartsUnlessNoGitea
<1>1. ASSUME WholeInv, phase = "running" PROVE file.gitea = "set"
  BY <1>1 DEF WholeInv, Inv, Typed, Configurations, Accepted, Started, RequiredGiven
<1>2. WholeInv => StartsUnlessNoGitea
  BY <1>1 DEF WholeInv, StartsUnlessNoGitea
<1> QED
  BY <1>2, WholeInvariance, PTL

=============================================================================
