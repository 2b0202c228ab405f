-------------------------- MODULE TagResolverProofs --------------------------
(***************************************************************************)
(* What holds of the resolvers whatever Stack Overflow has, whenever the   *)
(* sync runs and however often instances start: they resolve to tags that  *)
(* are in the table, and what they resolve to they resolve to itself.      *)
(***************************************************************************)
EXTENDS TagResolver, TLAPS

\* Nothing leaves the table of tags, so what has been copied from it is in
\* it.  The synonyms, which are read first, name tags that the second query
\* reads.
TagInv ==
  /\ TagTypeOK
  /\ \A s \in Tag : synonyms[s] # NoTag => synonyms[s] \in tags
  /\ \A i \in Instance : resolver[i].canonicals \subseteq tags
  /\ \A i \in Instance, s \in Tag :
       resolver[i].synonyms[s] # NoTag => resolver[i].synonyms[s] \in tags
  /\ \A i \in Instance, s \in Tag :
       Up(i) /\ resolver[i].synonyms[s] # NoTag
         => resolver[i].synonyms[s] \in resolver[i].canonicals

TagNext == Sync \/ \E i \in Instance : Load(i) \/ Exit(i)
allTagVars == <<tagVars, resolverVars>>

-----------------------------------------------------------------------------
\* A tag is resolved to nothing, to the target of a synonym or to a canonical
\* name.
LEMMA ResolveRange ==
  ASSUME NEW r \in Resolver, NEW t \in Tag
  PROVE  \/ Resolve(r, t) = NoTag
         \/ r.synonyms[t] # NoTag /\ Resolve(r, t) = r.synonyms[t]
         \/ Resolve(r, t) \in r.canonicals
<1>1. Closest(r, t) # {} => (CHOOSE c \in Closest(r, t) : TRUE) \in Closest(r, t)
  OBVIOUS
<1>2. Closest(r, t) \subseteq r.canonicals
  BY DEF Closest, Alike
<1> QED
  BY <1>1, <1>2 DEF Resolve

\* Whatever a resolver resolves to is in the table.
LEMMA ResolvedIsThere ==
  ASSUME TagInv, NEW i \in Instance, NEW t \in Tag,
         Resolve(resolver[i], t) # NoTag
  PROVE  Resolve(resolver[i], t) \in tags
<1>1. resolver[i] \in Resolver
  BY DEF TagInv, TagTypeOK
<1> QED
  BY <1>1, ResolveRange DEF TagInv

LEMMA ResolvedTagsAreThere ==
  ASSUME TagInv, NEW i \in Instance, NEW A \in SUBSET Spelling
  PROVE  ResolveTags(resolver[i], A) \subseteq tags
<1>1. Normalised(A) \subseteq Tag
  BY NormalAssumption DEF Normalised
<1> QED
  BY <1>1, ResolvedIsThere DEF ResolveTags

\* Resolving settles in every state of the invariant.
LEMMA SettlesIfInv == TagInv => ResolutionSettles
<1> SUFFICES ASSUME TagInv, NEW i \in Instance, NEW t \in Tag, Up(i),
                    Resolve(resolver[i], t) # NoTag,
                    resolver[i].synonyms[Resolve(resolver[i], t)] = NoTag
             PROVE  Resolve(resolver[i], Resolve(resolver[i], t))
                      = Resolve(resolver[i], t)
  BY DEF ResolutionSettles
<1>1. resolver[i] \in Resolver
  BY DEF TagInv, TagTypeOK
<1>2. Resolve(resolver[i], t) \in resolver[i].canonicals
  BY <1>1, ResolveRange DEF TagInv
<1> QED
  BY <1>2 DEF Resolve

-----------------------------------------------------------------------------
LEMMA TagInvInit == TagInit => TagInv
BY SeedAssumption, MaxStartsAssumption
   DEF TagInit, TagInv, TagTypeOK, EmptyResolver, Resolver, SynonymMap, Up

LEMMA TagInvFrame == TagInv /\ UNCHANGED allTagVars => TagInv'
BY DEF TagInv, TagTypeOK, Up, allTagVars, tagVars, resolverVars

LEMMA SyncInv ==
  ASSUME TagInv, Sync
  PROVE  TagInv'
<1>1. UNCHANGED resolverVars
  BY DEF Sync
<1>2. CASE Tables!InsertTags
  <2>1. PICK T \in SUBSET SoTag : tags' = tags \union T /\ UNCHANGED synonyms
    BY <1>2 DEF Tables!InsertTags
  <2>2. TagTypeOK'
    BY <1>1, <2>1, SoAssumption DEF TagInv, TagTypeOK, resolverVars
  <2> QED
    BY <1>1, <2>1, <2>2 DEF TagInv, resolverVars, Up
<1>3. CASE Tables!InsertSynonyms
  <2>1. PICK S :
          /\ synonyms' = [s \in Tag |->
                            IF \E t \in tags : <<s, t>> \in S
                            THEN CHOOSE t \in tags : <<s, t>> \in S
                            ELSE synonyms[s]]
          /\ UNCHANGED tags
    BY <1>3 DEF Tables!InsertSynonyms
  <2>2. \A s \in Tag :
          synonyms'[s] \in tags \/ synonyms'[s] = synonyms[s]
    BY <2>1
  <2>3. TagTypeOK'
    BY <1>1, <2>1, <2>2 DEF TagInv, TagTypeOK, resolverVars, SynonymMap
  <2>4. \A s \in Tag : synonyms'[s] # NoTag => synonyms'[s] \in tags'
    BY <2>1, <2>2 DEF TagInv
  <2> QED
    BY <1>1, <2>1, <2>3, <2>4 DEF TagInv, resolverVars, Up
<1> QED
  BY <1>2, <1>3 DEF Sync, Tables!Next

LEMMA LoadSynonymsInv ==
  ASSUME TagInv, NEW i \in Instance, LoadSynonyms(i)
  PROVE  TagInv'
<1>1. /\ resolver' = [resolver EXCEPT ![i].synonyms = synonyms]
      /\ loaded[i] = 0 /\ loaded' = [loaded EXCEPT ![i] = @ + 1]
      /\ starts[i] < MaxStarts /\ starts' = [starts EXCEPT ![i] = @ + 1]
      /\ UNCHANGED <<tags, synonyms>>
  BY DEF LoadSynonyms, LoadNext, LoadOrder, tagVars, TagInv, TagTypeOK
<1>2. /\ resolver' \in [Instance -> Resolver]
      /\ \A j \in Instance :
           /\ resolver'[j].canonicals = resolver[j].canonicals
           /\ resolver'[j].synonyms \in {resolver[j].synonyms, synonyms}
           /\ j # i => resolver'[j] = resolver[j]
  BY <1>1 DEF TagInv, TagTypeOK, Resolver
<1>3. loaded'[i] = 1 /\ \A j \in Instance : j # i => loaded'[j] = loaded[j]
  BY <1>1 DEF TagInv, TagTypeOK
<1>4. TagTypeOK'
  BY <1>1, <1>2, MaxStartsAssumption DEF TagInv, TagTypeOK
<1>5. \A j \in Instance : ~Up(i)' /\ (j # i => (Up(j)' <=> Up(j)))
  BY <1>3 DEF Up
<1> QED
  BY <1>1, <1>2, <1>4, <1>5 DEF TagInv

LEMMA LoadCanonicalsInv ==
  ASSUME TagInv, NEW i \in Instance, LoadCanonicals(i)
  PROVE  TagInv'
<1>1. /\ resolver' = [resolver EXCEPT ![i].canonicals = tags]
      /\ loaded[i] = 1 /\ loaded' = [loaded EXCEPT ![i] = @ + 1]
      /\ UNCHANGED <<tags, synonyms, starts>>
  <2>1. starts' = [starts EXCEPT ![i] = @]
    BY DEF LoadCanonicals, LoadNext, LoadOrder
  <2> QED
    BY <2>1 DEF LoadCanonicals, LoadNext, LoadOrder, tagVars, TagInv, TagTypeOK
<1>2. /\ resolver' \in [Instance -> Resolver]
      /\ resolver'[i].canonicals = tags
      /\ resolver'[i].synonyms = resolver[i].synonyms
      /\ \A j \in Instance : j # i => resolver'[j] = resolver[j]
  BY <1>1 DEF TagInv, TagTypeOK, Resolver
<1>3. \A j \in Instance : j # i => loaded'[j] = loaded[j]
  BY <1>1 DEF TagInv, TagTypeOK
<1>4. TagTypeOK'
  BY <1>1, <1>2 DEF TagInv, TagTypeOK
<1>5. \A j \in Instance : j # i => (Up(j)' <=> Up(j))
  BY <1>3 DEF Up
<1>6. \A j \in Instance, s \in Tag :
        /\ resolver'[j].canonicals \subseteq tags
        /\ resolver'[j].synonyms = resolver[j].synonyms
        /\ Up(j)' /\ resolver[j].synonyms[s] # NoTag
             => resolver[j].synonyms[s] \in resolver'[j].canonicals
  BY <1>2, <1>5 DEF TagInv
<1> QED
  BY <1>1, <1>4, <1>6 DEF TagInv

LEMMA ExitInv ==
  ASSUME TagInv, NEW i \in Instance, Exit(i)
  PROVE  TagInv'
<1>1. EmptyResolver \in Resolver /\ EmptyResolver.canonicals = {}
        /\ \A s \in Tag : EmptyResolver.synonyms[s] = NoTag
  BY DEF EmptyResolver, Resolver, SynonymMap
<1>2. /\ resolver' = [resolver EXCEPT ![i] = EmptyResolver]
      /\ loaded' = [loaded EXCEPT ![i] = 0]
      /\ UNCHANGED <<tags, synonyms, starts>>
  BY DEF Exit, tagVars
<1>3. TagTypeOK'
  BY <1>1, <1>2 DEF TagInv, TagTypeOK
<1>4. \A j \in Instance :
        IF j = i THEN resolver'[j] = EmptyResolver
        ELSE resolver'[j] = resolver[j] /\ (Up(j)' <=> Up(j))
  BY <1>2 DEF TagInv, TagTypeOK, Up
<1> QED
  BY <1>1, <1>2, <1>3, <1>4 DEF TagInv

LEMMA TagInvStep == TagInv /\ [TagNext]_allTagVars => TagInv'
<1> SUFFICES ASSUME TagInv, [TagNext]_allTagVars
             PROVE  TagInv'
  OBVIOUS
<1>1. CASE UNCHANGED allTagVars
  BY <1>1, TagInvFrame
<1>2. CASE Sync
  BY <1>2, SyncInv
<1>3. ASSUME NEW i \in Instance, Load(i) \/ Exit(i)
      PROVE  TagInv'
  BY <1>3, LoadSynonymsInv, LoadCanonicalsInv, ExitInv DEF Load
<1> QED
  BY <1>1, <1>2, <1>3 DEF TagNext
=============================================================================
