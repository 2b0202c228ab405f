----------------------------- MODULE TagResolver -----------------------------
(***************************************************************************)
(* Tags as the API sees them.  The tables tags and tag_synonyms grow, as   *)
(* TagTables has it, while the tag sync runs.  An API instance copies them *)
(* once, when it starts, in two queries, into a resolver that serves all   *)
(* its requests and is never refreshed.  The resolver turns a tag as a     *)
(* client spells it into a canonical tag, or into nothing.                 *)
(***************************************************************************)
EXTENDS Naturals, FiniteSets

CONSTANTS
  Tag,             \* normalised tag names
  NoTag,           \* Option::None, and what normalises to the empty string
  Spelling,        \* tags as clients spell them
  Normal,          \* Normal[s]: normalize_tag(s)
  Score,           \* Score[t][c]: 100 * jaro_winkler(t, c)
  SeedTags,        \* tags of the init migration
  SeedSynonyms,    \* its synonyms, as the variable synonyms has them
  SoTag,           \* tags the sync may insert
  SoSynonym,       \* pairs <<synonym, tag>> the sync may insert
  Instance,        \* API processes
  MaxStarts        \* bound: how often an instance starts

ASSUME NoTagAssumption == NoTag \notin Tag
ASSUME NormalAssumption == Normal \in [Spelling -> Tag \union {NoTag}]
ASSUME ScoreAssumption == Score \in [Tag -> [Tag -> 0..100]]
ASSUME SeedAssumption ==
  /\ SeedTags \subseteq Tag
  /\ SeedSynonyms \in [Tag -> SeedTags \union {NoTag}]
ASSUME SoAssumption == SoTag \subseteq Tag /\ SoSynonym \subseteq Tag \X Tag
ASSUME MaxStartsAssumption == MaxStarts \in Nat

VARIABLES
  tags,        \* the names in api.tags
  synonyms,    \* synonyms[s]: the tag that api.tag_synonyms has for s, or NoTag
  resolver,    \* resolver[i]: the copy of both tables in instance i
  loaded,      \* loaded[i]: how many of the two queries of TagResolver::new
               \* have been answered; all of them when i serves requests
  starts       \* starts[i]: how often i has been started

tagVars == <<tags, synonyms>>
resolverVars == <<resolver, loaded, starts>>

SynonymMap == [Tag -> Tag \union {NoTag}]
Resolver == [synonyms : SynonymMap, canonicals : SUBSET Tag]
EmptyResolver == [synonyms |-> [t \in Tag |-> NoTag], canonicals |-> {}]

-----------------------------------------------------------------------------
(***************************************************************************)
(* Resolution, by three layers.                                            *)
(***************************************************************************)
SimilarityThreshold == 85

Alike(r, t) == {c \in r.canonicals : Score[t][c] >= SimilarityThreshold}
Closest(r, t) ==
  {c \in Alike(r, t) : \A d \in Alike(r, t) : Score[t][c] >= Score[t][d]}

\* A synonym is replaced, a canonical tag stays, anything else becomes the
\* most similar canonical tag if there is one that is similar enough.
Resolve(r, t) ==
  IF r.synonyms[t] # NoTag THEN r.synonyms[t]
  ELSE IF t \in r.canonicals THEN t
  ELSE IF Closest(r, t) # {} THEN CHOOSE c \in Closest(r, t) : TRUE
  ELSE NoTag

\* normalize_tags: tags that normalise to nothing are left out.
Normalised(asked) == {Normal[s] : s \in asked} \ {NoTag}

\* resolve_tags: without duplicates and without tags that resolve to nothing.
ResolveTags(r, asked) == {Resolve(r, t) : t \in Normalised(asked)} \ {NoTag}

-----------------------------------------------------------------------------
TagInit ==
  /\ tags = SeedTags
  /\ synonyms = SeedSynonyms
  /\ resolver = [i \in Instance |-> EmptyResolver]
  /\ loaded = [i \in Instance |-> 0]
  /\ starts = [i \in Instance |-> 0]

\* Mutant: reads the canonical names before the synonyms.
LoadOrder_Swapped == [synonyms |-> 1, canonicals |-> 0]

\* TagResolver::new reads the synonyms, then the canonical names.
LoadOrder == [synonyms |-> 0, canonicals |-> 1]

Up(i) == loaded[i] = 2

\* A query that starts i, or the second one of its start.
LoadNext(i) ==
  /\ loaded[i] = 0 => starts[i] < MaxStarts
  /\ starts' = [starts EXCEPT ![i] = IF loaded[i] = 0 THEN @ + 1 ELSE @]
  /\ loaded' = [loaded EXCEPT ![i] = @ + 1]
  /\ UNCHANGED tagVars

\* load_synonyms: one statement, all rows joined with their tags.
LoadSynonyms(i) ==
  /\ loaded[i] = LoadOrder.synonyms
  /\ resolver' = [resolver EXCEPT ![i].synonyms = synonyms]
  /\ LoadNext(i)

\* load_canonicals: one statement, all names.
LoadCanonicals(i) ==
  /\ loaded[i] = LoadOrder.canonicals
  /\ resolver' = [resolver EXCEPT ![i].canonicals = tags]
  /\ LoadNext(i)

\* The process ends: it is replaced, crashes, or a query of its start fails.
Exit(i) ==
  /\ loaded[i] > 0
  /\ loaded' = [loaded EXCEPT ![i] = 0]
  /\ resolver' = [resolver EXCEPT ![i] = EmptyResolver]
  /\ UNCHANGED <<tagVars, starts>>

Tables == INSTANCE TagTables WITH Synonym <- Tag

\* A statement of the tag sync.  A synonym may also be a tag: Stack Overflow
\* merges tags.
Sync == Tables!Next /\ UNCHANGED resolverVars

Load(i) == LoadSynonyms(i) \/ LoadCanonicals(i)

-----------------------------------------------------------------------------
\* The types of the tables and of the copies.
TagTypeOK ==
  /\ tags \in SUBSET Tag
  /\ synonyms \in SynonymMap
  /\ resolver \in [Instance -> Resolver]
  /\ loaded \in [Instance -> 0..2]
  /\ starts \in [Instance -> 0..MaxStarts]

\* Resolving is final: what a serving instance resolves a tag to, it resolves
\* to itself, so that a question can be found by the tags it is shown with.
\* The exception is a tag that Stack Overflow has merged into another one.
\* It depends on the order of the two queries of TagResolver::new, between
\* which the sync may insert a tag and a synonym of it.
ResolutionSettles ==
  \A i \in Instance, t \in Tag :
    LET r == Resolve(resolver[i], t)
    IN  Up(i) /\ r # NoTag /\ resolver[i].synonyms[r] = NoTag
          => Resolve(resolver[i], r) = r
=============================================================================
