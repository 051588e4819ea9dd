--------------------------- MODULE ReleaseCatalog ---------------------------
(***************************************************************************)
(* What a device makes of an update source: the manifest, the document of  *)
(* a release and the signed descriptor or set it names, read one after the *)
(* other from a server that may be halfway through publishing, and the     *)
(* contracts each is held to (crates/mica-deploy/src/catalog.rs,           *)
(* catalog/sets.rs, components.rs, update_set.rs, core_set.rs,             *)
(* debian_version.rs).  A line of the manifest is a product on a board or  *)
(* a kind of set on a channel and an architecture; a release is named by   *)
(* its id; a digest is the thing it is the digest of.  Where the objects   *)
(* go, and when, is the module Acquisition's.                              *)
(***************************************************************************)
EXTENDS Integers, Sequences, FiniteSets
LOCAL INSTANCE FiniteSetsExt
LOCAL INSTANCE SequencesExt

CONSTANTS
    CatManifests,  \* name -> [revision, lines]: what the source publishes, in the order of revision
    CatDocuments,  \* release -> its document
    CatEnvelopes,  \* release -> the signed envelope its document should name
    CatGood,       \* the releases that were built as they should be
    CatSources,    \* the update roots the device may be pointed at, each serving the same releases
    CatDevice,     \* [product, board, arch, features]
    CatFirst,      \* the release the device runs at first
    CatChannels,   \* the channels the device may follow
    HashFanout,    \* digests in a block of the hash tree (128)
    CatLevels,     \* bound on the levels of a hash tree a run looks at
    CatMaxSet,     \* MAX_CORE_COMPONENTS
    CatChecks,     \* bound: checks of the source
    CatWords,      \* the pairs of version parts a run compares
    CatTrees       \* the numbers of data blocks a run looks at

VARIABLES
    catPublished,  \* the highest revision published so far
    catCheckpoint, \* catalog.json: [source, manifest], of the last complete check
    catChannel,    \* the channel the device follows
    catHeld,       \* the set it holds, or "none"
    catSystem,     \* the deployment it runs
    catJob,        \* the check under way
    catUsed,
    catProbe       \* the inputs of the pure functions below

catVars == <<catPublished, catCheckpoint, catChannel, catHeld, catSystem, catJob, catUsed, catProbe>>

----------------------------------------------------------------------------
(* Debian versions.  A version is the sequence of its characters' codes.   *)

IsDigit(c) == c \in 48 .. 57
IsLetter(c) == c \in 65 .. 90 \cup 97 .. 122

(* ~ before the end, the end before letters, letters before the rest.      *)
Weight(c) == CASE c = 126 -> -1
               [] IsLetter(c) -> c
               [] OTHER -> c + 256

TextWeight(s) == IF s # <<>> /\ ~IsDigit(Head(s)) THEN Weight(Head(s)) ELSE 0
AfterText(s) == IF s # <<>> /\ ~IsDigit(Head(s)) THEN Tail(s) ELSE s

(* The digits at the head, without leading zeros, and what follows them.   *)
DigitCount(s) == Max({n \in 0 .. Len(s) : \A i \in 1 .. n : IsDigit(s[i])})
Digits(s) ==
    LET run == SubSeq(s, 1, DigitCount(s))
        zeros == Max({n \in 0 .. Len(run) : \A i \in 1 .. n : run[i] = 48})
    IN  SubSeq(run, zeros + 1, Len(run))
AfterDigits(s) == SubSeq(s, DigitCount(s) + 1, Len(s))

Order(x, y) == CASE x < y -> -1 [] x > y -> 1 [] OTHER -> 0

(* Two sequences of numbers, the shorter first where one starts the other. *)
Lexicographic(a, b) ==
    LET both == 1 .. (IF Len(a) < Len(b) THEN Len(a) ELSE Len(b))
        differ == {i \in both : a[i] # b[i]}
    IN  IF differ = {} THEN Order(Len(a), Len(b)) ELSE Order(a[Min(differ)], b[Min(differ)])

(* Digits by their number, and then by their value.                        *)
NumberOrder(a, b) ==
    LET x == Digits(a)
        y == Digits(b)
    IN  IF Len(x) # Len(y) THEN Order(Len(x), Len(y)) ELSE Lexicographic(x, y)

RECURSIVE ComparePart(_, _)
ComparePart(a, b) ==
    CASE a = <<>> /\ b = <<>> -> 0
      [] (a # <<>> /\ ~IsDigit(Head(a))) \/ (b # <<>> /\ ~IsDigit(Head(b))) ->
            (IF TextWeight(a) # TextWeight(b) THEN Order(TextWeight(a), TextWeight(b))
             ELSE ComparePart(AfterText(a), AfterText(b)))
      [] OTHER ->
            (IF NumberOrder(a, b) # 0 THEN NumberOrder(a, b)
             ELSE ComparePart(AfterDigits(a), AfterDigits(b)))

(* [epoch:]upstream[-revision]; the last dash ends the upstream version.   *)
Positions(s, c) == {i \in DOMAIN s : s[i] = c}
Epoch(s) == IF Positions(s, 58) = {} THEN <<>> ELSE SubSeq(s, 1, Min(Positions(s, 58)) - 1)
Unepoched(s) == IF Positions(s, 58) = {} THEN s ELSE SubSeq(s, Min(Positions(s, 58)) + 1, Len(s))
Upstream(s) == LET r == Unepoched(s)
               IN  IF Positions(r, 45) = {} THEN r ELSE SubSeq(r, 1, Max(Positions(r, 45)) - 1)
Revision(s) == LET r == Unepoched(s)
               IN  IF Positions(r, 45) = {} THEN <<>> ELSE SubSeq(r, Max(Positions(r, 45)) + 1, Len(r))

IsDebianVersion(s) ==
    LET plain(c) == IsDigit(c) \/ IsLetter(c) \/ c \in {46, 43, 126}
    IN  /\ Len(s) \in 1 .. 64
        /\ Positions(s, 58) # {} => Len(Epoch(s)) \in 1 .. 9 /\ \A i \in DOMAIN Epoch(s) : IsDigit(Epoch(s)[i])
        /\ Upstream(s) # <<>> /\ IsDigit(Head(Upstream(s)))
        /\ \A i \in DOMAIN Upstream(s) : plain(Upstream(s)[i]) \/ Upstream(s)[i] = 45
        /\ Positions(Unepoched(s), 45) # {} => Revision(s) # <<>>
        /\ \A i \in DOMAIN Revision(s) : plain(Revision(s)[i])

DebianCompare(a, b) ==
    LET parts == << NumberOrder(Epoch(a), Epoch(b)), ComparePart(Upstream(a), Upstream(b)),
                    ComparePart(Revision(a), Revision(b)) >>
        differ == {i \in 1 .. 3 : parts[i] # 0}
    IN  IF differ = {} THEN 0 ELSE parts[Min(differ)]

----------------------------------------------------------------------------
(* Verity images: the tree follows the data, level over level until one    *)
(* block is left.                                                          *)

RECURSIVE TreeBlocks(_)
TreeBlocks(blocks) ==
    IF blocks <= 1 THEN 0
    ELSE LET up == (blocks + HashFanout - 1) \div HashFanout IN up + TreeBlocks(up)

ValidImage(i) == i.blocks > 0 /\ i.hashOffset = i.blocks /\ i.length = i.hashOffset + TreeBlocks(i.blocks)

----------------------------------------------------------------------------
(* Core components.  A version is the sequence of its numbers; an absent   *)
(* bound of a range is "none" or <<>>.                                     *)

IsVersion(v) == Len(v) \in 1 .. 4

\* Mutant: the upper bound of a range is left out of it
VersionInBelow(v, min, max) ==
    Lexicographic(v, min) >= 0 /\ (max # <<>> => Lexicographic(v, max) < 0)

VersionIn(v, min, max) ==
    Lexicographic(v, min) >= 0 /\ (max # <<>> => Lexicographic(v, max) <= 0)

ValidCore(c, arch) ==
    /\ c.arch = arch /\ IsVersion(c.version) /\ c.features # {}
    /\ Cardinality(c.needs) <= CatMaxSet
    /\ \A n \in c.needs : /\ n.package # c.package /\ IsVersion(n.min)
                          /\ n.max # <<>> => IsVersion(n.max) /\ Lexicographic(n.max, n.min) >= 0
    /\ c.levels.max # 0 => c.levels.max >= c.levels.min
    /\ \A q \in c.requires :
          /\ \A bound \in {q.min, q.max} \ {<<>>} : IsDebianVersion(bound)
          /\ q.min # <<>> /\ q.max # <<>> => DebianCompare(q.max, q.min) >= 0
    /\ ValidImage(c.image)
    /\ c.named

(* A root that does not provide the package meets the requirement.         *)
RequirementHolds(q, provides) ==
    q.package \in DOMAIN provides =>
        /\ q.min # <<>> => DebianCompare(provides[q.package], q.min) >= 0
        /\ q.max # <<>> => DebianCompare(provides[q.package], q.max) <= 0

RunsOn(c, level) == level >= c.levels.min /\ (c.levels.max # 0 => level <= c.levels.max)

NeedsMet(c, others) ==
    \A n \in c.needs : \E o \in others : o.package = n.package /\ VersionIn(o.version, n.min, n.max)

(* mica/set/v1: one component per package, in the order of the packages.   *)
ValidSet(s) ==
    /\ s.gen > 0
    /\ Len(s.components) \in 1 .. CatMaxSet
    /\ \A i \in 1 .. Len(s.components) - 1 : s.components[i].package < s.components[i + 1].package
    /\ \A c \in ToSet(s.components) : ValidCore(c, s.line.arch) /\ NeedsMet(c, ToSet(s.components))

(* The components a feature of the product selects; every one of them runs *)
(* on the root, and its needs are selected too.                            *)
Chosen(s, features) == {c \in ToSet(s.components) : c.features \cap features # {}}
SelectsOn(s, features, root) ==
    \A c \in Chosen(s, features) :
        /\ RunsOn(c, root.level)
        /\ \A q \in c.requires : RequirementHolds(q, root.provides)
        /\ NeedsMet(c, Chosen(s, features))

(* mica/deployment/v1.                                                     *)
ValidDeployment(d) ==
    /\ d.gen > 0
    /\ d.kernel.board = d.line.board /\ d.kernel.arch = d.arch /\ d.root.arch = d.arch
    /\ d.kernel.format \in {"uki", "fit"}
    /\ \A i \in 1 .. Len(d.kernel.features) - 1 : d.kernel.features[i] < d.kernel.features[i + 1]
    /\ ValidImage(d.kernel.image) /\ ValidImage(d.root.image)
    /\ d.root.level > 0
    /\ \A p \in DOMAIN d.root.provides : IsDebianVersion(d.root.provides[p])
    /\ d.kernel.named /\ d.root.named

ValidSigned(s) == IF s.line.kind = "system" THEN ValidDeployment(s) ELSE ValidSet(s)

(* The envelope: canonical, within its bound, and signed by a trusted key. *)
AuthenticatePayload(e) == e.canonical /\ e.fits /\ e.key = "trusted" /\ e.signed
Authenticate(r) == AuthenticatePayload(CatEnvelopes[r]) /\ ValidSigned(CatEnvelopes[r].payload)

----------------------------------------------------------------------------
(* The device: the line a check is about, and what it holds of it.  After  *)
(* a change of channel it holds nothing of the new one.                    *)

OwnLine(kind) ==
    IF kind = "system" THEN [kind |-> kind, product |-> CatDevice.product, board |-> CatDevice.board]
    ELSE [kind |-> kind, channel |-> catChannel, arch |-> CatDevice.arch]

(* What an envelope signs: a deployment with its kernel, its root and the  *)
(* set its image carries, or a set with its components.                    *)
Signed(r) == CatEnvelopes[r].payload

HeldGeneration(kind) ==
    IF kind = "system" THEN Signed(catSystem).gen
    ELSE IF catHeld # "none" /\ Signed(catHeld).line.channel = catChannel THEN Signed(catHeld).gen ELSE 0

(* The level and the packages of the running root.                         *)
RunningRoot == Signed(catSystem).root

CatIdle == [at |-> "idle", kind |-> "core", source |-> "none", manifest |-> "none", line |-> "none", gen |-> 0,
            doc |-> "none", env |-> "none"]

CatProbe0 == [a |-> <<>>, b |-> <<>>, blocks |-> 1]

CatInit ==
    /\ catPublished = 1 /\ catCheckpoint = [source |-> "none", manifest |-> "none"]
    /\ catChannel \in CatChannels /\ catHeld = "none" /\ catSystem = CatFirst
    /\ catJob = CatIdle /\ catUsed = 0
    /\ catProbe = CatProbe0

(* The pure functions, on every input of the run.                          *)
CatProbes ==
    /\ catPublished = 1 /\ catCheckpoint = [source |-> "none", manifest |-> "none"]
    /\ catChannel = CHOOSE c \in CatChannels : TRUE
    /\ catHeld = "none" /\ catSystem = CatFirst
    /\ catJob = CatIdle /\ catUsed = CatChecks
    /\ catProbe \in {[a |-> w[1], b |-> w[2], blocks |-> 1] : w \in CatWords}
                      \cup {[a |-> <<>>, b |-> <<>>, blocks |-> n] : n \in CatTrees}

(* The origin publishes the next manifest; each of its files reaches the   *)
(* server the device asks at its own time.                                 *)
CatPublish ==
    /\ \E n \in DOMAIN CatManifests : CatManifests[n].revision = catPublished + 1
    /\ catPublished' = catPublished + 1
    /\ UNCHANGED <<catCheckpoint, catChannel, catHeld, catSystem, catJob, catUsed, catProbe>>

SwitchChannel(c) ==
    /\ catJob.at = "idle" /\ c # catChannel
    /\ catChannel' = c
    /\ UNCHANGED <<catPublished, catCheckpoint, catHeld, catSystem, catJob, catUsed, catProbe>>

CatFails(why) == catJob' = [catJob EXCEPT !.at = why]

(* A document that cannot be had, where there is one to ask for.           *)
FetchFails ==
    /\ catJob.at \in {"manifest", "document", "envelope"}
    /\ CatFails("unread")
    /\ UNCHANGED <<catPublished, catCheckpoint, catChannel, catHeld, catSystem, catUsed, catProbe>>

CatCheck(kind, source) ==
    /\ catJob.at = "idle" /\ catUsed < CatChecks
    /\ catJob' = [CatIdle EXCEPT !.at = "manifest", !.kind = kind, !.source = source]
    /\ catUsed' = catUsed + 1
    /\ UNCHANGED <<catPublished, catCheckpoint, catChannel, catHeld, catSystem, catProbe>>

----------------------------------------------------------------------------
(* The manifest: its form, its revision against the last one read, every   *)
(* line of the part that is read, and then the device's own.               *)

(* Only a checkpoint of the source that is asked binds.                    *)
NoRollback(name) ==
    catCheckpoint.source = catJob.source =>
        /\ CatManifests[name].revision >= CatManifests[catCheckpoint.manifest].revision
        /\ CatManifests[name].revision = CatManifests[catCheckpoint.manifest].revision =>
               name = catCheckpoint.manifest

LinesOf(m, kind) == {l \in m.lines : (l.line.kind = "system") = (kind = "system")}

ManifestHolds(name, kind) ==
    LET lines == LinesOf(CatManifests[name], kind)
    IN  /\ CatManifests[name].sound /\ NoRollback(name)
        /\ \A l \in lines : l.below
        /\ \A k, l \in lines : k.line = l.line => k = l

(* The source keeps one manifest, which may be an old one where a mirror   *)
(* serves it.                                                              *)
ReadCatalog(name) ==
    LET own == {l \in LinesOf(CatManifests[name], catJob.kind) :
                    l.line = OwnLine(catJob.kind) /\ l.gen > HeldGeneration(catJob.kind)}
    IN  /\ catJob.at = "manifest" /\ CatManifests[name].revision <= catPublished
        /\ CASE ~ManifestHolds(name, catJob.kind) ->
                    catJob' = [catJob EXCEPT !.at = "refused", !.manifest = name] /\ UNCHANGED catCheckpoint
             [] ManifestHolds(name, catJob.kind) /\ own = {} ->
                    CatFails("current") /\ catCheckpoint' = [source |-> catJob.source, manifest |-> name]
             [] OTHER ->
                    /\ \E l \in own :
                          catJob' = [catJob EXCEPT !.at = "document", !.manifest = name, !.line = l.id,
                                                   !.gen = l.gen]
                    /\ UNCHANGED catCheckpoint
        /\ UNCHANGED <<catPublished, catChannel, catHeld, catSystem, catUsed, catProbe>>

(* What the server may have at the path of a release: the document of any  *)
(* release of the line that was published.                                 *)
Seen(kind) == {l.id : l \in UNION {LinesOf(CatManifests[n], kind) :
                                      n \in {n \in DOMAIN CatManifests : CatManifests[n].revision <= catPublished}}}

DocumentHolds(r) ==
    LET d == CatDocuments[r]
    IN  d.sound /\ d.id = catJob.line /\ d.line = OwnLine(catJob.kind) /\ d.gen = catJob.gen

ReadDocument(r) ==
    /\ catJob.at = "document" /\ r \in Seen(catJob.kind)
    /\ catJob' = [catJob EXCEPT !.at = IF DocumentHolds(r) THEN "envelope" ELSE "refused", !.doc = r]
    /\ UNCHANGED <<catPublished, catCheckpoint, catChannel, catHeld, catSystem, catUsed, catProbe>>

(* The signed document, and the objects the release lists against the ones *)
(* it names.  A deployment that carries a core set is released with more   *)
(* objects, known once the set is read; of such a release a listed length  *)
(* is not held to the signed one here.                                     *)
Required(s) == s.objects \cup s.carries
Shas(objects) == {o.sha : o \in objects}

ObjectsHold(s, listed) ==
    /\ Cardinality(Shas(Required(s))) = Cardinality(Required(s))
    /\ Cardinality(Shas(ToSet(listed))) = Len(listed)
    /\ Shas(Required(s)) \subseteq Shas(ToSet(listed))
    /\ \A o \in ToSet(listed) : o.below /\ ([sha |-> o.sha, bytes |-> o.bytes] \in Required(s)
                                              \/ (s.carries # {} /\ o.bytes > 0))

SignedHolds(r) ==
    LET s == Signed(r)
    IN  /\ r = CatDocuments[catJob.doc].names
        /\ Authenticate(r)
        /\ s.line = OwnLine(catJob.kind) /\ s.gen = catJob.gen /\ s.arch = CatDevice.arch
        /\ ObjectsHold(s, CatDocuments[catJob.doc].objects)

(* The set that does not select on the running root waits for a system.    *)
ReadEnvelope(r) ==
    /\ catJob.at = "envelope" /\ r \in Seen(catJob.kind)
    /\ IF SignedHolds(r)
       THEN /\ catCheckpoint' = [source |-> catJob.source, manifest |-> catJob.manifest]
            /\ catJob' = [catJob EXCEPT !.env = r, !.at =
                  IF catJob.kind = "system" \/ SelectsOn(Signed(r), CatDevice.features, RunningRoot)
                  THEN "offered" ELSE "waits"]
       ELSE catJob' = [catJob EXCEPT !.at = "refused", !.env = r] /\ UNCHANGED catCheckpoint
    /\ UNCHANGED <<catPublished, catChannel, catHeld, catSystem, catUsed, catProbe>>

(* The deployment is held to the device by its signed boot policy, and to  *)
(* the kernel the loader started.                                          *)
Admit(d) == d.line.board = CatDevice.board /\ d.arch = CatDevice.arch /\ d.kernel.format = CatDevice.format
VerifyDeployment(d, started) == ValidDeployment(d) /\ Admit(d) /\ d.kernel.build = started.build

TakeSet ==
    /\ catJob.at = "offered" /\ catJob.kind = "core"
    /\ catHeld' = catJob.env
    /\ catJob' = CatIdle
    /\ UNCHANGED <<catPublished, catCheckpoint, catChannel, catSystem, catUsed, catProbe>>

BootSystem(started) ==
    /\ catJob.at = "offered" /\ catJob.kind = "system"
    /\ catSystem' = IF VerifyDeployment(Signed(catJob.env), Signed(started).kernel) THEN catJob.env ELSE catSystem
    /\ catJob' = CatIdle
    /\ UNCHANGED <<catPublished, catCheckpoint, catChannel, catHeld, catUsed, catProbe>>

CheckEnds ==
    /\ catJob.at \in {"unread", "refused", "current", "waits", "offered"}
    /\ catJob' = CatIdle
    /\ UNCHANGED <<catPublished, catCheckpoint, catChannel, catHeld, catSystem, catUsed, catProbe>>

CatNext ==
    \/ CatPublish \/ FetchFails \/ TakeSet \/ CheckEnds
    \/ \E c \in CatChannels : SwitchChannel(c)
    \/ \E kind \in {"system", "core"}, source \in CatSources : CatCheck(kind, source)
    \/ \E name \in DOMAIN CatManifests : ReadCatalog(name)
    \/ \E r \in DOMAIN CatDocuments : ReadDocument(r) \/ ReadEnvelope(r)
    \/ \E started \in {catSystem, catJob.env} \ {"none"} : BootSystem(started)

CatSpec == CatInit /\ [][CatNext]_catVars

----------------------------------------------------------------------------
CatTypeOK ==
    /\ catPublished \in Nat /\ catCheckpoint.manifest \in DOMAIN CatManifests \cup {"none"}
    /\ {catCheckpoint.source, catJob.source} \subseteq CatSources \cup {"none"}
    /\ catChannel \in CatChannels
    /\ {catHeld, catSystem, catJob.line, catJob.doc, catJob.env} \subseteq DOMAIN CatDocuments \cup {"none"}
    /\ catJob.at \in {"idle", "manifest", "document", "envelope", "unread", "refused", "current", "waits", "offered"}

\* The three documents of an offer are of one release, whatever the server had
\* published of which: the signed one is of the device's line, newer than what
\* it holds, signed, and its objects are the ones listed, each with its length
\* where no core set is carried (verify_catalog, verify_set_catalog).
OfferIsOneRelease ==
    catJob.at = "offered" =>
        LET s == Signed(catJob.env)
            d == CatDocuments[catJob.doc]
            l == CHOOSE l \in CatManifests[catJob.manifest].lines : l.line = OwnLine(catJob.kind)
        IN  /\ CatEnvelopes[catJob.env].key = "trusted"
            /\ d.id = l.id /\ d.gen = l.gen /\ s.line = l.line /\ s.gen = l.gen
            /\ s.gen > HeldGeneration(catJob.kind)
            /\ Shas(Required(s)) \subseteq Shas(ToSet(d.objects))
            /\ s.carries = {} =>
                 {[sha |-> o.sha, bytes |-> o.bytes] : o \in ToSet(d.objects)} = s.objects

\* A set taken is composed whole on the root that ran when it was taken: each
\* component chosen runs there and finds what it needs among the chosen
\* (core_set.rs select, needs_met).
OfferComposes ==
    catJob.at = "offered" /\ catJob.kind = "core" =>
        \A c \in Chosen(Signed(catJob.env), CatDevice.features) :
            /\ c.levels.min <= RunningRoot.level
            /\ \A n \in c.needs :
                  \E o \in Chosen(Signed(catJob.env), CatDevice.features) : o.package = n.package

\* A release that was built as it should be is not refused when its own
\* documents are read: none of the contracts turns away what it is there to
\* admit, on either side of each of their bounds.
GoodIsNotRefused ==
    catJob.at = "refused" =>
        \/ catJob.line \notin CatGood
        \/ catJob.doc # catJob.line
        \/ catJob.env \notin {"none", catJob.line}

----------------------------------------------------------------------------
(* References for the pure functions.  A version part is the sequence of   *)
(* its characters' weights, 0 at the end of each text and the value of     *)
(* each number, padded with 0.                                             *)

RECURSIVE NumberValue(_)
NumberValue(run) ==
    IF run = <<>> THEN 0 ELSE 10 * NumberValue(Front(run)) + (Last(run) - 48)

TextCount(s) == Max({n \in 0 .. Len(s) : \A i \in 1 .. n : ~IsDigit(s[i])})

RECURSIVE VersionKey(_)
VersionKey(s) ==
    IF s = <<>> THEN <<>>
    ELSE LET n == TextCount(s)
             rest == SubSeq(s, n + 1, Len(s))
         IN  [i \in 1 .. n |-> Weight(s[i])] \o <<0, NumberValue(SubSeq(rest, 1, DigitCount(rest)))>>
                 \o VersionKey(AfterDigits(rest))

KeyAt(key, i) == IF i \in DOMAIN key THEN key[i] ELSE 0

KeyOrder(a, b) ==
    LET differ == {i \in 1 .. Len(VersionKey(a)) + Len(VersionKey(b)) :
                       KeyAt(VersionKey(a), i) # KeyAt(VersionKey(b), i)}
    IN  IF differ = {} THEN 0 ELSE Order(KeyAt(VersionKey(a), Min(differ)), KeyAt(VersionKey(b), Min(differ)))

\* compare_part is the order of the padded weights, which is total
\* (debian_version.rs), and a hash tree has a block for every fan-out-th block
\* of each level below it (components.rs, VerityImage::validate).
PureAsDefined ==
    /\ ComparePart(catProbe.a, catProbe.b) = KeyOrder(catProbe.a, catProbe.b)
    /\ ComparePart(catProbe.b, catProbe.a) = -ComparePart(catProbe.a, catProbe.b)
    /\ LET levels == {k \in 1 .. CatLevels : HashFanout ^ (k - 1) < catProbe.blocks}
       IN  TreeBlocks(catProbe.blocks) =
             MapThenSumSet(LAMBDA k : (catProbe.blocks + HashFanout ^ k - 1) \div HashFanout ^ k, levels)

CatalogSafe == CatTypeOK /\ OfferIsOneRelease /\ OfferComposes /\ GoodIsNotRefused /\ PureAsDefined
=============================================================================
