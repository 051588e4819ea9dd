------------------------------ MODULE MCOffers ------------------------------
(* What the device takes from elsewhere and what it tells others of itself,  *)
(* side by side: the catalog of a source, the acquisition of releases and    *)
(* the discovery services.  They share no state; `part` says which of them a *)
(* behaviour is about, and the others keep an initial state.  A behaviour    *)
(* about a probe is one input of the catalog's pure functions, and no step.  *)
(* A bound of the instance: an origin that does not resume has no index.     *)
EXTENDS Acquisition, Discovery, ReleaseCatalog, SequencesExt

VARIABLE part

-----------------------------------------------------------------------------
(* Two system releases, the second with the image of the second core set,    *)
(* which needs the second root.                                              *)
Release(kind, gen, objects, image, needs) ==
  [kind |-> kind, gen |-> gen, objects |-> objects, image |-> image, needs |-> needs]

MCReleases ==
  [s1 |-> Release("system", 1, {"root"}, "none", 0),
   s2 |-> Release("system", 2, {"root", "kernel"}, "c2", 0),
   c1 |-> Release("core", 1, {"micad"}, "none", 0),
   c2 |-> Release("core", 2, {"apid"}, "none", 2)]
MCEnvelope == [c1 |-> "env1", c2 |-> "env2"]
MCSize == [root |-> 2, kernel |-> 1, micad |-> 1, apid |-> 1, env1 |-> 1, env2 |-> 1]

(* One service of the image, one a drop-in may replace or add, one of an app. *)
Advert(inst, kind, port) == [inst |-> inst, kind |-> kind, port |-> port]

MCNames == <<"a", "b">>
MCImage == [n \in {"a", "b"} |-> IF n = "a" THEN Advert("x", "ipp", 1) ELSE NoEntry]
MCEntries == {Advert("own", "http", 2), Advert("x", "ipp", 2)}
MCApps == <<"p">>
MCAppEntry == [p |-> Advert("own", "web", 3)]

(* The catalog.  Core set c2 needs the root of s2 at both ends of its        *)
(* bounds; c3 was built with its components out of order, c4 lists an object *)
(* too few, c5 is signed with another key; e1 is the set of another channel. *)
(* Of the manifests the second revision exists twice, the third has a line   *)
(* of a kind to come, and the fourth names a line twice.                     *)
Image(blocks, length) == [blocks |-> blocks, hashOffset |-> blocks, length |-> length]
Core(package, version, needs, min, max, requires) ==
  [arch |-> "amd64", package |-> package, version |-> version, features |-> {"console"}, needs |-> needs,
   levels |-> [min |-> min, max |-> max], requires |-> requires, image |-> Image(4, 7), named |-> TRUE]
Need(package, min, max) == [package |-> package, min |-> min, max |-> max]

SystemLine == [kind |-> "system", product |-> "p", board |-> "b"]
CoreLine(channel) == [kind |-> "core", channel |-> channel, arch |-> "amd64"]
Object(sha, bytes) == [sha |-> sha, bytes |-> bytes]

\* 1.9, 1.10 and 1.10~a
V19 == <<49, 46, 57>>
V110 == <<49, 46, 49, 48>>
V110a == V110 \o <<126, 97>>

SetOf(channel, gen, components) ==
  [line |-> CoreLine(channel), arch |-> "amd64", gen |-> gen, components |-> components,
   objects |-> {Object("o1", gen)}, carries |-> {}]
Apid(needs, min, max, requires) == Core(1, <<1, 2>>, needs, min, max, requires)
Micad(version) == Core(2, version, {}, 1, 0, {})

System(gen, level, provides, build, carries) ==
  [line |-> SystemLine, arch |-> "amd64", gen |-> gen, objects |-> {Object("r", gen), Object("k", 1)},
   carries |-> carries,
   kernel |-> [board |-> "b", arch |-> "amd64", format |-> "uki", features |-> <<1, 2>>, build |-> build,
               image |-> Image(1, 1), named |-> TRUE],
   root |-> [arch |-> "amd64", level |-> level, provides |-> provides, image |-> Image(3, 6), named |-> TRUE]]

MCPayload ==
  [c1 |-> SetOf("general", 1, << Apid({Need(2, <<1>>, <<>>)}, 1, 0, {}), Micad(<<1, 0>>) >>),
   c2 |-> SetOf("general", 2, << Apid({Need(2, <<1, 10>>, <<1, 10>>)}, 2, 2, {Need("podman", V110a, V110)}),
                                 Micad(<<1, 10>>) >>),
   c3 |-> SetOf("general", 3, << Micad(<<2>>), Apid({}, 1, 0, {}) >>),
   c4 |-> SetOf("general", 3, << Micad(<<2>>) >>),
   c5 |-> SetOf("general", 3, << Micad(<<2>>) >>),
   e1 |-> SetOf("edge", 1, << Apid({}, 1, 0, {Need("podman", V19, <<>>)}) >>),
   s1 |-> System(1, 1, [podman |-> V19], "k1", {}),
   s2 |-> System(2, 2, [podman |-> V110], "k2", {Object("o1", 2)})]

MCEnvelopes ==
  [r \in DOMAIN MCPayload |->
     [canonical |-> TRUE, fits |-> TRUE, signed |-> TRUE, payload |-> MCPayload[r],
      key |-> IF r = "c5" THEN "other" ELSE "trusted"]]
MCDocuments ==
  [r \in DOMAIN MCPayload |->
     [sound |-> TRUE, id |-> r, line |-> MCPayload[r].line, gen |-> MCPayload[r].gen, names |-> r,
      objects |-> LET more == IF r = "s2" THEN << Object("extra", 1) >> ELSE << >>
                      all == SetToSeq(MCPayload[r].objects \cup MCPayload[r].carries) \o more
                  IN  [i \in 1 .. Len(all) - (IF r = "c4" THEN 1 ELSE 0) |->
                         [sha |-> all[i].sha, bytes |-> all[i].bytes, below |-> TRUE]]]]
MCGood == {"c1", "c2", "e1", "s1", "s2"}
MCCatDevice == [product |-> "p", board |-> "b", arch |-> "amd64", features |-> {"console"}, format |-> "uki"]

LineOf(r) == [line |-> MCPayload[r].line, id |-> r, gen |-> MCPayload[r].gen, below |-> TRUE]
Lines(rs) == {LineOf(r) : r \in rs}
MCManifests ==
  [m1 |-> [revision |-> 1, sound |-> TRUE, lines |-> Lines({"c1", "s1"})],
   m2 |-> [revision |-> 2, sound |-> TRUE, lines |-> Lines({"c2", "e1", "s2"})],
   n2 |-> [revision |-> 2, sound |-> TRUE, lines |-> Lines({"c2", "s2"})],
   m3 |-> [revision |-> 3, sound |-> TRUE, lines |-> Lines({"c3", "e1", "s2"})
             \cup {[line |-> [kind |-> "later", channel |-> "general", arch |-> "amd64"],
                    id |-> "c1", gen |-> 9, below |-> TRUE]}],
   m4 |-> [revision |-> 4, sound |-> TRUE, lines |-> Lines({"c4", "c5", "s2"})],
   m5 |-> [revision |-> 4, sound |-> TRUE, lines |-> Lines({"c4", "e1", "s2"})],
   m6 |-> [revision |-> 5, sound |-> TRUE, lines |-> Lines({"c5", "s2"})]]

\* Parts over ~ a . 0 1 2: up to three characters against up to two.
MCChars == {126, 97, 46, 48, 49, 50}
MCPart(n) == UNION {[1 .. k -> MCChars] : k \in 0 .. n}
MCWords == MCPart(3) \X MCPart(2)

-----------------------------------------------------------------------------
Init ==
  /\ part \in {"acquisition", "discovery", "catalog", "probe"}
  /\ AcqInit /\ DscInit
  /\ IF part = "probe" THEN CatProbes ELSE CatInit
  /\ part # "acquisition" => origin.indexes = "none" /\ origin.ranges
  /\ origin.ranges \/ origin.indexes = "none"
  /\ part \notin {"catalog", "probe"} => catChannel = "general"

Next ==
  \/ part = "acquisition" /\ AcqNext /\ UNCHANGED <<dscVars, catVars, part>>
  \/ part = "discovery" /\ DscNext /\ UNCHANGED <<acqVars, catVars, part>>
  \/ part = "catalog" /\ CatNext /\ UNCHANGED <<acqVars, dscVars, part>>

vars == <<acqVars, dscVars, catVars, part>>

(* The fairness of AcqSpec and of DscSpec, each for its own part.            *)
Acquires(A) == part = "acquisition" /\ A
Discovers(A) == part = "discovery" /\ A

Spec ==
  /\ Init /\ [][Next]_vars
  /\ WF_acqVars(Acquires(CommandStep))
  /\ SF_acqVars(Acquires(UpdateByHand)) /\ SF_acqVars(Acquires(AcqConfirmed))
  /\ SF_dscVars(Discovers(WorkerApplies)) /\ SF_dscVars(Discovers(MdnsUpkeep))
  /\ WF_dscVars(Discovers(DscApply)) /\ WF_dscVars(Discovers(SsStarts))
  /\ WF_dscVars(Discovers(SsUpdate)) /\ WF_dscVars(Discovers(SsEnds))
  /\ SF_dscVars(Discovers(SsLook)) /\ SF_dscVars(Discovers(SsAnnounce))

-----------------------------------------------------------------------------
\* Acquisition!AcquiredAtLast and Discovery!PublishedAtLast, each in the
\* behaviours about its part: the update that is tried again and again acquires
\* what the source offers, and what mDNS was told comes to be what settings,
\* files and apps ask for.
OffersArrive ==
  /\ part = "acquisition" => AcquiredAtLast
  /\ part = "discovery" => PublishedAtLast
=============================================================================
