------------------------- MODULE HandoffCertificate -------------------------
(***************************************************************************)
(* The certificates a GEMM carries from the semantic module through the    *)
(* structured one to a bufferized or a vectorized one.  Each stage copies  *)
(* the identity of its source, upstream transformations rewrite what lies  *)
(* between, and a verifier accepts a module alone or beside its source.    *)
(* A fingerprint is the record of what it covers: SHA-256 is taken to be   *)
(* collision free.  Fields with a fixed text stand for their group.        *)
(***************************************************************************)
EXTENDS Integers, Sequences, FiniteSets, SequencesExt, TLC

CONSTANTS
  MaxEdits, \* changes made to modules after they were issued
  Absent,   \* the value of a field that is not there
  Other     \* a value no verifier knows, or of the wrong kind

ConstantsAssumption == MaxEdits \in Nat

VARIABLES semantic, structured, derived, kind, edits

vars == <<semantic, structured, derived, kind, edits>>

Nothing == <<>>
File == {"f", "g"}
Unit == {"t", "u"}
Id == {"s1", "s2"}
Producer == {"libtooling", "ast_json"}
Get(fields, name) == IF name \in DOMAIN fields THEN fields[name] ELSE Absent

SemanticFields == {"bridge_schema", "numerical_profile", "producer", "source_file", "translation_unit"}
SourceName ==
  [bridge_schema |-> "source_bridge_schema", numerical_profile |-> "numerical_profile",
   producer |-> "source_producer", source_file |-> "source_file",
   translation_unit |-> "translation_unit"]
StructuredFields == Range(SourceName) \cup {"producer", "authority"}
DerivedFields == StructuredFields \cup
  {"source_structured_producer", "site_count", "site_set", "derived_schema"}
StructuredSiteFields == {"capture_ordinal", "site_id", "source_semantic_symbol", "contract", "handoff"}
DerivedSiteFields == StructuredSiteFields \cup {"source_type", "fingerprint", "derived_handoff"}

------------------------------------------------------------------------------
(* Semantic modules: what bridgeV1ToMatcoreMlir returns. *)

Contract(id, file, line, shape, policy) ==
  [site_id |-> id, file |-> file, at |-> <<file, line>>, shape |-> shape, policy |-> policy,
   profile |-> "explicit"]

Capture(file, policies, shape) ==
  [fields |-> [bridge_schema |-> "semantic_v1", numerical_profile |-> "explicit",
               producer |-> "libtooling", source_file |-> file, translation_unit |-> "t"],
   sites |-> [i \in DOMAIN policies |->
     LET id == <<"s1", "s2">>[i] IN
     [name |-> <<"semantic", id>>, type |-> <<"tensor", shape>>, loc |-> <<file, i>>,
      arguments |-> <<file, i>>, hints |-> {}, fields |-> [capture_ordinal |-> i - 1, site_id |-> id],
      op |-> Contract(id, file, i, shape, policies[i])]]]

Captures ==
  {Capture("f", <<"p", "p">>, "static"), Capture("f", <<"p", "q">>, "static"),
   Capture("f", <<"p">>, "static"), Capture("f", <<"q">>, "dynamic"), Capture("g", <<"p">>, "static")}

\* mlir::verify: symbols are unique.
SymbolsUnique(m) == \A i, j \in DOMAIN m.sites : m.sites[i].name = m.sites[j].name => i = j

\* GemmOp::verify, in what ties the contract to its surroundings.
GemmVerifies(contract, type, loc) ==
  contract # Absent /\ contract # Other /\ contract.at = loc /\ type = <<"tensor", contract.shape>>

V1Verifies(m) ==
  LET field(name) == Get(m.fields, name) IN
  /\ SymbolsUnique(m)
  /\ field("bridge_schema") = "semantic_v1" /\ field("numerical_profile") = "explicit"
  /\ field("producer") \in Producer /\ field("source_file") \in File /\ field("translation_unit") \in Unit
  /\ \A i \in DOMAIN m.sites :
       LET site == m.sites[i]
           id == Get(site.fields, "site_id")
       IN  /\ id \in Id /\ \A j \in 1..(i - 1) : Get(m.sites[j].fields, "site_id") # id
           /\ Get(site.fields, "capture_ordinal") = i - 1 /\ site.name = <<"semantic", id>>
           /\ site.arguments = site.loc /\ GemmVerifies(site.op, site.type, site.loc)
           /\ site.op.site_id = id /\ site.op.profile = "explicit" /\ site.op.file = field("source_file")

\* verifyStructuredHandoffSourceEnvelopeV1.
SourceEnvelope(m) ==
  /\ DOMAIN m.fields = SemanticFields /\ m.fields["bridge_schema"] = "semantic_v1"
  /\ \A i \in DOMAIN m.sites :
       DOMAIN m.sites[i].fields = {"capture_ordinal", "site_id"} /\ m.sites[i].hints = {}

------------------------------------------------------------------------------
(* The structured handoff. *)

\* initializeStructuredHandoffCertificateV1, attachStructuredHandoffSiteCertificateV1.
StructuredSite(site) ==
  [site EXCEPT !.name = <<"structured", site.fields["site_id"]>>, !.op = "linalg",
               !.fields = [capture_ordinal |-> site.fields["capture_ordinal"],
                           site_id |-> site.op.site_id, source_semantic_symbol |-> site.name,
                           contract |-> site.op, handoff |-> "inspection_only"]]

StructuredOf(m) ==
  [fields |-> ("producer" :> "structured" @@ "authority" :> "inspection_only") @@
              [name \in Range(SourceName) |->
                 m.fields[CHOOSE f \in SemanticFields : SourceName[f] = name]],
   sites |-> [i \in DOMAIN m.sites |-> StructuredSite(m.sites[i])]]

\* verifyStructuredModuleIdentityFields.
IdentityFields(m, producer_field) ==
  LET field(name) == Get(m.fields, name) IN
  /\ field(producer_field) = "structured" /\ field("authority") = "inspection_only"
  /\ field("source_bridge_schema") = "semantic_v1" /\ field("source_producer") \in Producer
  /\ field("source_file") \in File /\ field("translation_unit") \in Unit
  /\ field("numerical_profile") \notin {Absent, Other}

\* verifyStructuredHandoffSiteCertificateImpl.
SiteCertificate(site, i, exact) ==
  LET id == Get(site.fields, "site_id") IN
  /\ IF exact THEN DOMAIN site.fields = StructuredSiteFields
     ELSE StructuredSiteFields \subseteq DOMAIN site.fields
  /\ site.hints = {}
  /\ id \in Id /\ site.fields["capture_ordinal"] = i - 1 /\ site.fields["contract"] # Other
  /\ site.name = <<"structured", id>> /\ site.fields["source_semantic_symbol"] = <<"semantic", id>>
  /\ site.fields["handoff"] = "inspection_only"

CertificateEnvelope(m) ==
  /\ SymbolsUnique(m) /\ DOMAIN m.fields = StructuredFields /\ IdentityFields(m, "producer")
  /\ m.sites # <<>> /\ \A i \in DOMAIN m.sites : SiteCertificate(m.sites[i], i, TRUE)

\* The contract a site retains is the one of its file, its profile and its name.
ContractBelongs(m, site) ==
  LET contract == site.fields["contract"] IN
  /\ contract.site_id = site.fields["site_id"] /\ contract.profile = m.fields["numerical_profile"]
  /\ contract.file = m.fields["source_file"]

\* reconstructSemanticWitness.
Witness(m) ==
  [fields |-> [f \in SemanticFields |-> m.fields[SourceName[f]]],
   sites |-> [i \in DOMAIN m.sites |->
     LET site == m.sites[i] IN
     [site EXCEPT !.name = site.fields["source_semantic_symbol"], !.arguments = site.loc,
                  !.op = site.fields["contract"],
                  !.fields = [capture_ordinal |-> site.fields["capture_ordinal"],
                              site_id |-> site.fields["site_id"]]]]]
StructuredFunction(m, i) ==
  LET site == m.sites[i] IN
  /\ SiteCertificate(site, i, TRUE) /\ ContractBelongs(m, site)
  /\ site.arguments = site.loc /\ site.op = "linalg"

StructuredVerifies(m) ==
  /\ CertificateEnvelope(m) /\ m.fields["numerical_profile"] = "explicit"
  /\ \A i \in DOMAIN m.sites : StructuredFunction(m, i)
  /\ V1Verifies(Witness(m))
SiteFingerprint(canonical, site, symbol, type, contract) ==
  [module |-> canonical, ordinal |-> Get(site.fields, "capture_ordinal"), symbol |-> symbol,
   site_id |-> Get(site.fields, "site_id"), type |-> type, loc |-> site.loc,
   arguments |-> site.arguments, contract |-> contract]

SourceFingerprint(m, site) == SiteFingerprint(m.fields, site, site.name, site.type, site.op)

Retained(m) == [f \in SemanticFields |-> Get(m.fields, SourceName[f])]
StructuredFingerprint(m, site) ==
  SiteFingerprint(Retained(m), site, Get(site.fields, "source_semantic_symbol"), site.type,
                  Get(site.fields, "contract"))
RetainedFingerprint(m, site) ==
  SiteFingerprint(Retained(m), site, Get(site.fields, "source_semantic_symbol"),
                  site.fields["source_type"], Get(site.fields, "contract"))

\* verifyStructuredHandoffCertificateMatchesSourceV1.
SitesMatch_Zip(source, m) ==
  \A i \in DOMAIN source.sites \cap DOMAIN m.sites :
    LET a == source.sites[i]  b == m.sites[i] IN
    /\ b.fields["site_id"] = a.fields["site_id"] /\ b.fields["source_semantic_symbol"] = a.name
    /\ b.type = a.type /\ b.loc = a.loc /\ b.fields["contract"] = a.op /\ b.arguments = a.arguments
    /\ SourceFingerprint(source, a) = StructuredFingerprint(m, b)
SitesMatch(source, m) == Len(source.sites) = Len(m.sites) /\ SitesMatch_Zip(source, m)

MatchesSource(source, m) ==
  /\ V1Verifies(source) /\ SourceEnvelope(source) /\ StructuredVerifies(m)
  /\ \A f \in SemanticFields : source.fields[f] = m.fields[SourceName[f]]
  /\ SitesMatch(source, m)

DeriveStructured ==
  /\ structured = Nothing /\ V1Verifies(semantic) /\ SourceEnvelope(semantic) /\ semantic.sites # <<>>
  /\ structured' = StructuredOf(semantic)
  /\ StructuredVerifies(structured') /\ MatchesSource(semantic, structured')
  /\ UNCHANGED <<semantic, derived, kind, edits>>

------------------------------------------------------------------------------
(* The derived handoffs. *)

SiteSet(fingerprints) == [profile |-> "structured", sites |-> fingerprints]

\* One-Shot Bufferize and the vectorizer, outside this repository: the body and,
\* for buffers, the type change.
Transformed(m, k) ==
  [m EXCEPT !.sites = [i \in DOMAIN m.sites |->
     [m.sites[i] EXCEPT !.op = k,
        !.type = IF k = "bufferized" THEN <<"memref", m.sites[i].type[2]>> ELSE m.sites[i].type]]]

\* The two handoff attributes; the readiness ledger repeats what the contract allows.
HandoffAttribute(k, contract) ==
  IF k = "bufferized" THEN <<k, "in_place">> ELSE <<k, contract.policy>>

\* attachDerivedStructuredHandoffSourceIdentityV1: whether it may be attached ...
MayAttach(source, m) ==
  /\ CertificateEnvelope(source) /\ SymbolsUnique(m) /\ m.fields = source.fields
  /\ Len(source.sites) = Len(m.sites)
  /\ \A i \in DOMAIN m.sites :
       LET a == source.sites[i]  b == m.sites[i] IN
       /\ SiteCertificate(b, i, TRUE) /\ a.name = b.name /\ a.loc = b.loc /\ a.arguments = b.arguments
       /\ \A f \in {"source_semantic_symbol", "contract"} : a.fields[f] = b.fields[f]
Attached(source, m, k) ==
  [fields |-> [f \in DerivedFields |->
     CASE f = "source_structured_producer" -> source.fields["producer"]
       [] f = "site_count" -> Len(m.sites)
       [] f = "site_set" ->
            SiteSet([i \in DOMAIN source.sites |-> StructuredFingerprint(source, source.sites[i])])
       [] f \in {"producer", "derived_schema"} -> k
       [] OTHER -> m.fields[f]],
   sites |-> [i \in DOMAIN m.sites |->
     [m.sites[i] EXCEPT !.fields =
        ("source_type" :> source.sites[i].type @@
         "fingerprint" :> StructuredFingerprint(source, source.sites[i]) @@
         "derived_handoff" :> HandoffAttribute(k, m.sites[i].fields["contract"])) @@ m.sites[i].fields]]]

\* verifyDerivedStructuredHandoffSourceIdentityV1.
DerivedSite(m, i) ==
  LET site == m.sites[i] IN
  /\ SiteCertificate(site, i, FALSE)
  /\ Get(site.fields, "source_type") \notin {Absent, Other}
  /\ Get(site.fields, "fingerprint") = RetainedFingerprint(m, site)

DerivedEnvelope_NoSet(m) ==
  /\ SymbolsUnique(m) /\ IdentityFields(m, "source_structured_producer")
  /\ m.sites # <<>> /\ Get(m.fields, "site_count") = Len(m.sites)
  /\ \A i \in DOMAIN m.sites : DerivedSite(m, i)
DerivedEnvelope(m) ==
  /\ SymbolsUnique(m) /\ IdentityFields(m, "source_structured_producer")
  /\ m.sites # <<>> /\ Get(m.fields, "site_count") = Len(m.sites)
  /\ \A i \in DOMAIN m.sites : DerivedSite(m, i)
  /\ Get(m.fields, "site_set") =
       SiteSet([i \in DOMAIN m.sites |-> m.sites[i].fields["fingerprint"]])

\* verifyBufferizedFunction and verifyVectorFunction without the bodies.
FunctionOf(k, m, i) ==
  LET site == m.sites[i]
      contract == site.fields["contract"]
      source_type == site.fields["source_type"]
  IN  /\ DOMAIN site.fields = DerivedSiteFields /\ site.arguments = site.loc /\ site.op = k
      /\ ContractBelongs(m, site) /\ GemmVerifies(contract, source_type, site.loc)
      /\ site.fields["derived_handoff"] = HandoffAttribute(k, contract)
      /\ IF k = "bufferized" THEN site.type = <<"memref", source_type[2]>>
         ELSE site.type = source_type /\ source_type[2] = "static"

DerivedVerifies(m, k) ==
  /\ DOMAIN m.fields = DerivedFields /\ m.fields["producer"] = k /\ m.fields["derived_schema"] = k
  /\ DerivedEnvelope(m) /\ \A i \in DOMAIN m.sites : FunctionOf(k, m, i)

\* verifyDerivedStructuredHandoffMatchesSourceV1.
DerivedMatches(source, m, k) ==
  /\ StructuredVerifies(source) /\ DerivedVerifies(m, k)
  /\ \A f \in StructuredFields :
       source.fields[f] = m.fields[IF f = "producer" THEN "source_structured_producer" ELSE f]
  /\ Len(source.sites) = Len(m.sites)
  /\ \A i \in DOMAIN m.sites :
       LET a == source.sites[i]  b == m.sites[i] IN
       /\ b.fields["fingerprint"] = StructuredFingerprint(source, a)
       /\ b.fields["source_type"] = a.type /\ b.loc = a.loc /\ b.arguments = a.arguments

\* deriveBufferizedGemmHandoffV1, when no buffer is allocated or copied.
DeriveBufferized ==
  /\ structured # Nothing /\ derived = Nothing /\ StructuredVerifies(structured)
  /\ LET m == Transformed(structured, "bufferized") IN
     MayAttach(structured, m) /\ derived' = Attached(structured, m, "bufferized")
  /\ DerivedMatches(structured, derived', "bufferized")
  /\ kind' = "bufferized" /\ UNCHANGED <<semantic, structured, edits>>

StaticShapes(m) == \A i \in DOMAIN m.sites : m.sites[i].type[2] = "static"

\* deriveStructuredGemmVectorReadinessV1: static shapes only.
DeriveVectorized ==
  /\ structured # Nothing /\ derived = Nothing /\ StructuredVerifies(structured)
  /\ StaticShapes(structured)
  /\ LET m == Transformed(structured, "vectorized") IN
     MayAttach(structured, m) /\ derived' = Attached(structured, m, "vectorized")
  /\ DerivedMatches(structured, derived', "vectorized")
  /\ kind' = "vectorized" /\ UNCHANGED <<semantic, structured, edits>>

------------------------------------------------------------------------------
(* Changes to a module that was issued: by a pass, an editor, a wrong file. *)

EditedSite(site) ==
  {[site EXCEPT !.name = <<"structured", id>>] : id \in Id}
  \cup {[site EXCEPT !.type = <<t, s>>] : t \in {"tensor", "memref"}, s \in {"static", "dynamic"}}
  \cup {[site EXCEPT !.loc = <<"f", 2>>], [site EXCEPT !.arguments = <<"f", 2>>],
        [site EXCEPT !.hints = {"noinline"}], [site EXCEPT !.op = Other]}
  \cup {[site EXCEPT !.fields = Restrict(@, DOMAIN @ \ {f})] : f \in DOMAIN site.fields}
  \cup {[site EXCEPT !.fields = ("extra" :> "hint") @@ @]}
  \cup {[site EXCEPT !.fields[f] = Other] : f \in DOMAIN site.fields}
  \cup {[site EXCEPT !.fields["contract"].policy = p] :
          p \in IF Get(site.fields, "contract") \in {Absent, Other} THEN {} ELSE {"p", "q"}}

\* Twin: a module of the same stage issued from another capture.
Edited(m, twin) ==
  {[m EXCEPT !.fields[f] = v] : f \in DOMAIN m.fields \ {"site_count", "site_set"},
                                v \in {Other, "g", "u", "ast_json"}}
  \cup {[m EXCEPT !.fields[f] = Get(twin.fields, f)] : f \in DOMAIN m.fields}
  \cup {[m EXCEPT !.fields = Restrict(@, DOMAIN @ \ {f})] : f \in DOMAIN m.fields}
  \cup {[m EXCEPT !.fields = ("extra" :> "hint") @@ @]}
  \cup UNION {{[m EXCEPT !.sites[i] = s] : s \in EditedSite(m.sites[i])} : i \in DOMAIN m.sites}
  \cup {[m EXCEPT !.sites = SubSeq(@, 1, Len(@) - 1)], [m EXCEPT !.sites = Reverse(@)]}
  \cup {[m EXCEPT !.sites[i] = twin.sites[i]] : i \in DOMAIN m.sites \cap DOMAIN twin.sites}
  \cup {[m EXCEPT !.sites = twin.sites], [m EXCEPT !.sites = m.sites \o twin.sites]}

IssuedFrom(capture, k) ==
  Attached(StructuredOf(capture), Transformed(StructuredOf(capture), k), k)

EditStructured ==
  /\ edits < MaxEdits /\ structured # Nothing /\ derived = Nothing
  /\ \E capture \in Captures : structured' \in Edited(structured, StructuredOf(capture))
  /\ edits' = edits + 1 /\ UNCHANGED <<semantic, derived, kind>>

EditDerived ==
  /\ edits < MaxEdits /\ derived # Nothing
  /\ \E capture \in Captures : derived' \in Edited(derived, IssuedFrom(capture, kind))
  /\ edits' = edits + 1 /\ UNCHANGED <<semantic, structured, kind>>

Init == semantic \in Captures /\ structured = Nothing /\ derived = Nothing /\ kind = Nothing /\ edits = 0
Next == DeriveStructured \/ DeriveBufferized \/ DeriveVectorized \/ EditStructured \/ EditDerived
Spec == Init /\ [][Next]_vars

------------------------------------------------------------------------------
(* Properties. *)

\* A structured module accepted beside a semantic one is what would be derived
\* from it: no edit, swap or transplant gets past the comparison.
PairedStructuredIsTheProjection ==
  structured # Nothing /\ MatchesSource(semantic, structured) => structured = StructuredOf(semantic)

\* A structured module accepted alone has a semantic source it is accepted beside.
StructuredHasASource ==
  structured # Nothing /\ StructuredVerifies(structured) => MatchesSource(Witness(structured), structured)

\* A derived module accepted alone is, as a whole, one that some accepted
\* structured module gives: its sites are all there and belong together.
AcceptedDerivedIsWhole ==
  derived # Nothing /\ DerivedVerifies(derived, kind) =>
    \/ derived = Attached(structured, Transformed(structured, kind), kind)
    \/ \E capture \in Captures : derived = IssuedFrom(capture, kind)

\* Beside its source, it is the one that source gives.
PairedDerivedIsTheProjection ==
  derived # Nothing /\ DerivedMatches(structured, derived, kind) =>
    derived = Attached(structured, Transformed(structured, kind), kind)

\* Derivation never refuses what a bridge issued.
DerivationSucceeds ==
  /\ structured = Nothing => ENABLED DeriveStructured
  /\ structured # Nothing /\ derived = Nothing /\ edits = 0 => ENABLED DeriveBufferized
=============================================================================
