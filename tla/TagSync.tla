------------------------------ MODULE TagSync ------------------------------
(***************************************************************************)
(* so_tag_sync, the command that copies the tags and tag synonyms of Stack *)
(* Overflow into the database.  A run reads listings of Stack Overflow     *)
(* page by page while they change, and upserts what it read in chunks that *)
(* commit one by one.  Nothing stores the date of a sync: an incremental   *)
(* run takes the newest tags.created_at for it and asks for what changed   *)
(* since.  Runs fail at any step, and two may run at once.                 *)
(***************************************************************************)
EXTENDS Integers, Sequences, FiniteSets, Functions

CONSTANTS
  Tag,           \* tags, by name
  Synonym,       \* tag synonyms, by name
  NoTag,         \* not a tag
  Run,           \* invocations of the command
  SeedTags,      \* the tags that the init migration inserts
  SeedSynonyms,  \* SeedSynonyms[s]: the tag it maps s to, or NoTag
  PageSize,      \* items on a page of a listing, pagesize=100
  TagChunk,      \* rows of one INSERT of upsert_tags, 1000
  SynonymChunk,  \* rows of one INSERT of upsert_synonyms, 500
  Horizon,       \* bound: the model's clock stops here
  MaxChanges,    \* bound: changes of Stack Overflow's listings
  MaxStarts      \* bound: how often the command is given

ASSUME NoTagAssumption == NoTag \notin Tag
ASSUME SeedAssumption ==
  /\ SeedTags \subseteq Tag
  /\ SeedSynonyms \in [Synonym -> SeedTags \union {NoTag}]
ASSUME SizeAssumption ==
  {PageSize, TagChunk, SynonymChunk} \subseteq Nat \ {0}
ASSUME FiniteAssumption == IsFiniteSet(Tag) /\ IsFiniteSet(Synonym)
ASSUME BoundAssumption ==
  Horizon \in Nat \ {0} /\ {MaxChanges, MaxStarts} \subseteq Nat

VARIABLES
  now,        \* the clock, in seconds
  recent,     \* Stack Overflow's tags by last activity, latest first
  popular,    \* Stack Overflow's tags by number of questions, most first
  aliases,    \* Stack Overflow's synonyms by creation, latest first
  changes,    \* how often these changed
  tags,       \* api.tags: created_at by name, Never if there is no row
  synonyms,   \* api.tag_synonyms: the tag by synonym, NoTag if no row
  tagsFile, synonymsFile,  \* the files a full sync saves, NoFile if unreadable
  starts,     \* how often the command was given
  pc,         \* pc[r]: what run r does next
  job,        \* job[r]: the locals of run r
  synced,     \* history: when a run that wrote ended last, Never if none did
  gap         \* history: what is known to be lost to incremental syncs

soVars == <<recent, popular, aliases, changes>>
dbVars == <<tags, synonyms>>
fileVars == <<tagsFile, synonymsFile>>
history == <<synced, gap>>
cliVars == <<starts, pc, job>>
vars == <<now, soVars, dbVars, fileVars, cliVars, history>>

Never == -1
NoFile == [rows |-> <<>>, begun |-> Never, passed |-> {}]

Mode == {"incremental", "full", "file"}

\* The command line, min_timestamp (0 to ask for everything), the page to
\* fetch next, what was fetched or read and not yet upserted, and, as a
\* history, when the fetch of that began and what slipped past it.
NewJob ==
  [mode |-> "incremental", dry |-> FALSE, since |-> 0, page |-> 1,
   tags |-> <<>>, synonyms |-> <<>>, tagsBegun |-> 0, synonymsBegun |-> 0,
   tagsPassed |-> {}, synonymsPassed |-> {}]

Running(r) == pc[r] # "idle"
Goto(r, label) == pc' = [pc EXCEPT ![r] = label]

\* The process ends, and its locals with it.
Exit(r) ==
  /\ Goto(r, "idle")
  /\ job' = [job EXCEPT ![r] = NewJob]

Listed == {e.tag : e \in Range(recent)}
Smaller(m, n) == IF m < n THEN m ELSE n
First(n, l) == SubSeq(l, 1, Smaller(n, Len(l)))
Rest(n, l) == SubSeq(l, Smaller(n, Len(l)) + 1, Len(l))

\* The items of l that are in S, in their order.
Keep(l, S) ==
  LET kept[n \in 0..Len(l)] ==
        IF n = 0 THEN <<>>
        ELSE IF l[n] \in S THEN Append(kept[n - 1], l[n])
        ELSE kept[n - 1]
  IN  kept[Len(l)]

-----------------------------------------------------------------------------
(***************************************************************************)
(* What incremental syncs do not see any more.                             *)
(***************************************************************************)

\* get_last_sync_date: MAX(created_at) of the tags, NULL if there are none.
LastSyncDate ==
  LET dates == {Never} \union Range(tags)
  IN  CHOOSE d \in dates : \A e \in dates : e <= d

\* A tag and a synonym may have one name.
ATag(t) == <<"tag", t>>
ASynonym(s) == <<"synonym", s>>

\* What Stack Overflow has, the database lacks, and the next incremental
\* sync will not ask for.
Behind ==
  {ATag(e.tag) : e \in {f \in Range(recent) :
                          tags[f.tag] = Never /\ f.at < LastSyncDate}}
    \union
  {ASynonym(e.from) : e \in {f \in Range(aliases) :
                               synonyms[f.from] = NoTag /\ f.at < LastSyncDate}}

\* What run r has still to write: the rows it holds, and the synonyms that
\* an incremental run fetches after it has upserted its tags.
Pending(r) ==
  {ATag(t) : t \in Range(job[r].tags)}
    \union {ASynonym(e.from) : e \in Range(job[r].synonyms)}
    \union {ASynonym(e.from) : e \in {f \in Range(aliases) :
              /\ job[r].mode = "incremental"
              /\ pc[r] \in {"upsertTags", "fetchSynonyms"}
              /\ f.at >= job[r].since}}

\* What changed after r, or whoever saved its files, began to fetch, and what
\* it passed over because it slipped from a page ahead to one it had fetched.
Window(r) ==
  {ATag(e.tag) : e \in {f \in Range(recent) :
                          \/ f.at >= job[r].tagsBegun
                          \/ f.tag \in job[r].tagsPassed}}
    \union
  {ASynonym(e.from) : e \in {f \in Range(aliases) :
                               /\ job[r].mode # "incremental"
                               /\ \/ f.at >= job[r].synonymsBegun
                                  \/ f.from \in job[r].synonymsPassed}}

-----------------------------------------------------------------------------
(***************************************************************************)
(* The migrated database, seeded with some of the tags that Stack Overflow *)
(* had by then, or one with empty tables, as the tests of the command use. *)
(***************************************************************************)
Init ==
  /\ now = 1
  /\ \E T \in {T \in SUBSET Tag : SeedTags \subseteq T} :
       /\ popular \in Bijection(1..Cardinality(T), T)
       /\ \E order \in Bijection(1..Cardinality(T), T), k \in 0..Cardinality(T) :
            recent = [i \in DOMAIN order |->
                        [tag |-> order[i], at |-> IF i <= k THEN now ELSE 0]]
       /\ \E S \in SUBSET Synonym :
            \E order \in Bijection(1..Cardinality(S), S), to \in [S -> T],
               k \in 0..Cardinality(S) :
              aliases = [i \in DOMAIN order |->
                           [from |-> order[i], to |-> to[order[i]],
                            at |-> IF i <= k THEN now ELSE 0]]
  /\ changes = 0
  /\ \/ /\ tags = [t \in Tag |-> IF t \in SeedTags THEN now ELSE Never]
        /\ synonyms = SeedSynonyms
     \/ /\ tags = [t \in Tag |-> Never]
        /\ synonyms = [s \in Synonym |-> NoTag]
  /\ tagsFile = NoFile /\ synonymsFile = NoFile
  /\ starts = 0
  /\ pc = [r \in Run |-> "idle"]
  /\ job = [r \in Run |-> NewJob]
  /\ synced = Never
  /\ gap = Behind

-----------------------------------------------------------------------------
(***************************************************************************)
(* Stack Overflow and the clock.  The date of a tag's last activity does   *)
(* not go back.                                                            *)
(***************************************************************************)
Tick ==
  /\ now < Horizon
  /\ now' = now + 1
  /\ UNCHANGED <<soVars, dbVars, fileVars, cliVars, history>>

\* A question is asked or answered under t, which may overtake another tag;
\* a new tag starts as the least popular.
Activity(t) ==
  /\ changes < MaxChanges
  /\ changes' = changes + 1
  /\ recent' = <<[tag |-> t, at |-> now]>>
                 \o Keep(recent, {e \in Range(recent) : e.tag # t})
  /\ \/ t \notin Listed /\ popular' = Append(popular, t)
     \/ t \in Listed /\ UNCHANGED popular
     \/ \E i \in 2..Len(popular) :
          /\ popular[i] = t
          /\ popular' = [popular EXCEPT ![i] = popular[i - 1], ![i - 1] = t]
  /\ UNCHANGED <<now, aliases, dbVars, fileVars, cliVars, history>>

\* s becomes a synonym of t, and of no other tag any more.
Alias(s, t) ==
  /\ t \in Listed
  /\ changes < MaxChanges
  /\ changes' = changes + 1
  /\ aliases' = <<[from |-> s, to |-> t, at |-> now]>>
                  \o Keep(aliases, {e \in Range(aliases) : e.from # s})
  /\ UNCHANGED <<now, recent, popular, dbVars, fileVars, cliVars, history>>

\* The items of listing l that run r would have found on a page ahead of it
\* and that are on a page behind it in l as it is afterwards.
Slipped(r, l, after) ==
  LET fetched == (job[r].page - 1) * PageSize
  IN  {l[i] : i \in {j \in DOMAIN l :
         j > fetched /\ \E k \in DOMAIN after : k <= fetched /\ after[k] = l[j]}}

SlippedTags(r) ==
  IF pc[r] # "fetchTags" THEN {}
  ELSE IF job[r].mode = "incremental"
  THEN {e.tag : e \in Slipped(r, recent, recent')}
  ELSE Slipped(r, popular, popular')

SlippedSynonyms(r) ==
  IF pc[r] # "fetchSynonyms" THEN {}
  ELSE {e.from : e \in Slipped(r, aliases, aliases')}

\* A listing shrinks or is reordered under the runs that page through it.  What
\* slips past an incremental run that has written its tags may be lost to all.
Shift ==
  /\ changes < MaxChanges
  /\ changes' = changes + 1
  /\ job' = [r \in Run |->
               [job[r] EXCEPT !.tagsPassed = @ \union SlippedTags(r),
                              !.synonymsPassed = @ \union SlippedSynonyms(r)]]
  /\ gap' = gap \union {x \in UNION {{ASynonym(s) : s \in SlippedSynonyms(r)}
                                       : r \in Run} : x \in Behind}
  /\ UNCHANGED <<now, dbVars, fileVars, starts, pc, synced>>

\* Questions under t are deleted or retagged, and another tag overtakes it.
Decline(t) ==
  /\ changes < MaxChanges
  /\ \E i \in 1..Len(popular) - 1 :
       /\ popular[i] = t
       /\ popular' = [popular EXCEPT ![i] = popular[i + 1], ![i + 1] = t]
  /\ UNCHANGED <<recent, aliases>>
  /\ Shift

\* No question has tag t any more.
Leave(t) ==
  /\ changes < MaxChanges
  /\ t \in Listed
  /\ recent' = Keep(recent, {e \in Range(recent) : e.tag # t})
  /\ popular' = Keep(popular, Tag \ {t})
  /\ UNCHANGED aliases
  /\ Shift

\* s is no synonym any more.
Withdraw(s) ==
  /\ changes < MaxChanges
  /\ \E e \in Range(aliases) : e.from = s
  /\ aliases' = Keep(aliases, {e \in Range(aliases) : e.from # s})
  /\ UNCHANGED <<recent, popular>>
  /\ Shift

-----------------------------------------------------------------------------
(***************************************************************************)
(* The command.                                                            *)
(***************************************************************************)

\* main: --from-file comes before --full, incremental is the default;
\* --dry-run goes with each.  The command is given again and again.
Start(r) ==
  /\ ~Running(r)
  /\ starts < MaxStarts
  /\ starts' = starts + 1
  /\ \E m \in Mode, d \in BOOLEAN :
       /\ job' = [job EXCEPT ![r].mode = m, ![r].dry = d]
       /\ Goto(r, CASE m = "incremental" -> "date"
                    [] m = "full" -> "fetchTags"
                    [] m = "file" -> "readTags")
  /\ UNCHANGED <<now, soVars, dbVars, fileVars, history>>

\* Mutant: nothing checks that the table has a date.
TakeDate_Unguarded(r) ==
  /\ pc[r] = "date"
  /\ job' = [job EXCEPT ![r].since = LastSyncDate]
  /\ Goto(r, "fetchTags")
  /\ UNCHANGED <<now, starts, soVars, dbVars, fileVars, history>>

\* run_incremental_sync takes the date of the last sync, or bails out.
TakeDate(r) ==
  /\ pc[r] = "date"
  /\ \/ LastSyncDate = Never /\ Exit(r)
     \/ /\ LastSyncDate # Never
        /\ job' = [job EXCEPT ![r].since = LastSyncDate]
        /\ Goto(r, "fetchTags")
  /\ UNCHANGED <<now, starts, soVars, dbVars, fileVars, history>>

\* Mutant: the listings are asked for with order=asc.
TagListing_Ascending(r) ==
  LET latest == Keep(recent, {e \in Range(recent) : e.at >= job[r].since})
      asked  == IF job[r].mode = "incremental"
                THEN [i \in DOMAIN latest |-> latest[i].tag]
                ELSE popular
  IN  [i \in DOMAIN asked |-> asked[Len(asked) + 1 - i]]

\* The listings a run asks for: sort=activity or sort=popular for the tags,
\* sort=creation for the synonyms, order=desc, and min for an incremental run.
TagListing(r) ==
  IF job[r].mode = "incremental"
  THEN LET asked == Keep(recent, {e \in Range(recent) : e.at >= job[r].since})
       IN  [i \in DOMAIN asked |-> asked[i].tag]
  ELSE popular

\* Mutant: the date is taken again for the synonyms, after the tags are in.
SynonymListing_NewDate(r) ==
  Keep(aliases, {e \in Range(aliases) : job[r].mode = "incremental" =>
                                           e.at >= LastSyncDate})

SynonymListing(r) ==
  Keep(aliases, {e \in Range(aliases) : e.at >= job[r].since})

\* Page n of listing l as it is now, and whether has_more is set on it.
PageOf(l, n) == First(PageSize, Rest((n - 1) * PageSize, l))
HasMore(l, n) == Len(l) > n * PageSize

\* fetch_all_tags and fetch_tags_since: one page, which fetch_with_retry asks
\* for up to three times.  What an earlier page had is dropped later, by
\* upsert_tags, and here at once.
FetchTags(r) ==
  /\ pc[r] = "fetchTags"
  /\ LET n     == job[r].page
         more  == HasMore(TagListing(r), n)
         fresh == Keep(PageOf(TagListing(r), n), Tag \ Range(job[r].tags))
     IN  /\ job' = [job EXCEPT ![r].tags = @ \o fresh,
                               ![r].tagsBegun = IF n = 1 THEN now ELSE @,
                               ![r].tagsPassed = IF n = 1 THEN {} ELSE @,
                               ![r].page = IF more THEN n + 1 ELSE 1]
         /\ IF more THEN UNCHANGED pc
            ELSE Goto(r, IF job[r].mode = "full" THEN "saveTags"
                                                 ELSE "upsertTags")
  /\ UNCHANGED <<now, starts, soVars, dbVars, fileVars, history>>

SaveTags(r) ==
  /\ pc[r] = "saveTags"
  /\ tagsFile' = [rows |-> job[r].tags, begun |-> job[r].tagsBegun,
                  passed |-> job[r].tagsPassed]
  /\ Goto(r, "fetchSynonyms")
  /\ UNCHANGED <<now, starts, soVars, dbVars, synonymsFile, job, history>>

\* fetch_all_synonyms and fetch_synonyms_since; of two synonyms with one name
\* upsert_synonyms keeps the first.
FetchSynonyms(r) ==
  /\ pc[r] = "fetchSynonyms"
  /\ LET n     == job[r].page
         more  == HasMore(SynonymListing(r), n)
         fresh == Keep(PageOf(SynonymListing(r), n),
                       {e \in Range(aliases) :
                          \A f \in Range(job[r].synonyms) : f.from # e.from})
     IN  /\ job' = [job EXCEPT ![r].synonyms = @ \o fresh,
                               ![r].synonymsBegun = IF n = 1 THEN now ELSE @,
                               ![r].synonymsPassed = IF n = 1 THEN {} ELSE @,
                               ![r].page = IF more THEN n + 1 ELSE 1]
         /\ IF more THEN UNCHANGED pc
            ELSE Goto(r, IF job[r].mode = "full" THEN "saveSynonyms"
                                                 ELSE "resolve")
  /\ UNCHANGED <<now, starts, soVars, dbVars, fileVars, history>>

SaveSynonyms(r) ==
  /\ pc[r] = "saveSynonyms"
  /\ synonymsFile' = [rows |-> job[r].synonyms,
                      begun |-> job[r].synonymsBegun,
                      passed |-> job[r].synonymsPassed]
  /\ \/ job[r].dry /\ Exit(r)
     \/ ~job[r].dry /\ Goto(r, "upsertTags") /\ UNCHANGED job
  /\ UNCHANGED <<now, starts, soVars, dbVars, tagsFile, history>>

\* read_tags_file and read_synonyms_file.
ReadTags(r) ==
  /\ pc[r] = "readTags"
  /\ tagsFile # NoFile
  /\ job' = [job EXCEPT ![r].tags = tagsFile.rows,
                        ![r].tagsBegun = tagsFile.begun,
                        ![r].tagsPassed = tagsFile.passed]
  /\ Goto(r, "readSynonyms")
  /\ UNCHANGED <<now, starts, soVars, dbVars, fileVars, history>>

ReadSynonyms(r) ==
  /\ pc[r] = "readSynonyms"
  /\ synonymsFile # NoFile
  /\ \/ job[r].dry /\ Exit(r)
     \/ /\ ~job[r].dry
        /\ job' = [job EXCEPT ![r].synonyms = synonymsFile.rows,
                              ![r].synonymsBegun = synonymsFile.begun,
                              ![r].synonymsPassed = synonymsFile.passed]
        /\ Goto(r, "upsertTags")
  /\ UNCHANGED <<now, starts, soVars, dbVars, fileVars, history>>

\* upsert_tags: one chunk, a statement that commits by itself.  A tag the
\* table has keeps its created_at.  An incremental run fetches its synonyms
\* only now.
UpsertTags(r) ==
  /\ pc[r] = "upsertTags"
  /\ tags' = [t \in Tag |->
                IF tags[t] = Never /\ t \in Range(First(TagChunk, job[r].tags))
                THEN now ELSE tags[t]]
  /\ job' = [job EXCEPT ![r].tags = Rest(TagChunk, @)]
  /\ IF job'[r].tags # <<>> THEN UNCHANGED pc
     ELSE Goto(r, IF job[r].mode = "incremental" THEN "fetchSynonyms"
                                                 ELSE "resolve")
  /\ UNCHANGED <<now, starts, soVars, synonyms, fileVars, synced>>
  /\ gap' = gap \union ((Behind' \intersect Window(r)) \ Pending(r)')

\* Mutant: trusts that the tag of every synonym has been synced.
Resolve_Unfiltered(r) ==
  /\ pc[r] = "resolve"
  /\ Goto(r, "upsertSynonyms")
  /\ UNCHANGED <<now, starts, soVars, dbVars, fileVars, job, history>>

\* upsert_synonyms reads the tags and skips the synonyms of missing ones.
Resolve(r) ==
  /\ pc[r] = "resolve"
  /\ job' = [job EXCEPT ![r].synonyms =
               Keep(@, {e \in Range(@) : tags[e.to] # Never})]
  /\ Goto(r, "upsertSynonyms")
  /\ UNCHANGED <<now, starts, soVars, dbVars, fileVars, synced>>
  /\ gap' = gap \union (Behind \intersect (Pending(r) \ Pending(r)'))

\* upsert_synonyms: one chunk.  A synonym the table has keeps its tag.
UpsertSynonyms(r) ==
  /\ pc[r] = "upsertSynonyms"
  /\ LET chunk == Range(First(SynonymChunk, job[r].synonyms))
         rest  == Rest(SynonymChunk, job[r].synonyms)
     IN  /\ synonyms' = [s \in Synonym |->
              IF synonyms[s] = NoTag /\ \E e \in chunk : e.from = s
              THEN (CHOOSE e \in chunk : e.from = s).to
              ELSE synonyms[s]]
         /\ IF rest # <<>>
            THEN /\ job' = [job EXCEPT ![r].synonyms = rest]
                 /\ UNCHANGED <<pc, synced>>
            ELSE Exit(r) /\ synced' = now
  /\ UNCHANGED <<now, starts, soVars, tags, fileVars, gap>>

\* A request still fails at its third attempt or does not reach Stack
\* Overflow, a statement fails, a file cannot be read, the process is
\* killed.  What was being written to a file is cut short.
Fail(r) ==
  /\ Running(r)
  /\ Exit(r)
  /\ tagsFile' \in {tagsFile} \union
                     (IF pc[r] = "saveTags" THEN {NoFile} ELSE {})
  /\ synonymsFile' \in {synonymsFile} \union
                         (IF pc[r] = "saveSynonyms" THEN {NoFile} ELSE {})
  /\ gap' = gap \union (Behind \intersect Pending(r))
  /\ UNCHANGED <<now, starts, soVars, dbVars, synced>>

Step(r) ==
  \/ TakeDate(r) \/ FetchTags(r) \/ SaveTags(r)
  \/ FetchSynonyms(r) \/ SaveSynonyms(r)
  \/ ReadTags(r) \/ ReadSynonyms(r)
  \/ UpsertTags(r) \/ Resolve(r) \/ UpsertSynonyms(r)

Next ==
  \/ Tick
  \/ \E t \in Tag : Activity(t) \/ Decline(t) \/ Leave(t)
  \/ \E s \in Synonym : Withdraw(s) \/ \E t \in Tag : Alias(s, t)
  \/ \E r \in Run : Start(r) \/ Step(r) \/ Fail(r)

Spec == Init /\ [][Next]_vars

-----------------------------------------------------------------------------
(***************************************************************************)
(* Properties.                                                             *)
(***************************************************************************)
Moment == 0..Horizon
SynonymRow == [from : Synonym, to : Tag, at : Moment]
File(Row, Name) ==
  [rows : Seq(Row), begun : Moment \union {Never}, passed : SUBSET Name]
Job == [mode : Mode, dry : BOOLEAN,
        since : Moment, page : Nat \ {0},
        tags : Seq(Tag), synonyms : Seq(SynonymRow),
        tagsBegun : Moment, synonymsBegun : Moment,
        tagsPassed : SUBSET Tag, synonymsPassed : SUBSET Synonym]

\* Every variable has the type of the column, file or local it stands for.
TypeOK ==
  /\ now \in Moment
  /\ recent \in Seq([tag : Tag, at : Moment])
  /\ popular \in Seq(Tag)
  /\ aliases \in Seq(SynonymRow)
  /\ changes \in 0..MaxChanges
  /\ tags \in [Tag -> Moment \union {Never}]
  /\ synonyms \in [Synonym -> Tag \union {NoTag}]
  /\ tagsFile \in File(Tag, Tag)
  /\ synonymsFile \in File(SynonymRow, Synonym)
  /\ starts \in 0..MaxStarts
  /\ pc \in [Run -> {"idle", "date", "fetchTags", "saveTags", "fetchSynonyms",
                     "saveSynonyms", "readTags", "readSynonyms", "upsertTags",
                     "resolve", "upsertSynonyms"}]
  /\ job \in [Run -> Job]
  /\ synced \in Moment \union {Never}
  /\ gap \subseteq {ATag(t) : t \in Tag} \union {ASynonym(s) : s \in Synonym}

\* What Stack Overflow has, the database lacks and incremental syncs no
\* longer ask for is on its way to the database, or was lost in one of five
\* ways: it was there before the migration seeded the table, it changed
\* while a run that wrote was between fetch and upsert, it slipped past such
\* a run when its listing shrank or was reordered, a run failed after some of
\* its chunks, or its tag was missing when a synonym was resolved.
\* Paging through listings that move, concurrent runs and files of an
\* earlier run lose nothing else.
OnlyKnownGaps == Behind \subseteq gap \union UNION {Pending(r) : r \in Run}

\* Run r ends well, having written to the database what it fetched.
Completes(r) ==
  UpsertSynonyms(r) /\ ~Running(r)' /\ job[r].mode # "file"

\* The tags that r asked for and that neither changed while it fetched nor
\* slipped past it, and those that the table had before it fetched synonyms.
DueTags(r) ==
  {e.tag : e \in {f \in Range(recent) :
                    /\ job[r].since <= f.at
                    /\ f.at < job[r].tagsBegun
                    /\ f.tag \notin job[r].tagsPassed}}
KnownTags(r) ==
  {t \in Tag : tags[t] # Never /\ tags[t] < job[r].synonymsBegun}

\* A run that ends well has brought over all that it asked for, that did not
\* change while it was fetching and that did not slip past it, from a page
\* ahead to one behind, when others left the listing or lost questions.  All
\* other changes of a listing between two of its pages, what was lost before
\* and what other runs do make no difference.
SyncedIsComplete ==
  [][\A r \in Run : Completes(r) =>
       /\ \A t \in DueTags(r) : tags[t] # Never
       /\ \A e \in Range(aliases) :
            /\ job[r].since <= e.at
            /\ e.at < job[r].synonymsBegun
            /\ e.from \notin job[r].synonymsPassed
            /\ e.to \in DueTags(r) \union KnownTags(r)
            => synonyms'[e.from] # NoTag]_vars

\* main.rs:94 says of an incremental sync "only fetch tags/synonyms newer
\* than the last sync": a synonym made after the last sync that ended well
\* and before this run fetched them, of a tag the database had, is then in
\* the database.
NewerThanLastSync ==
  [][\A r \in Run : Completes(r) /\ job[r].mode = "incremental" =>
       \A e \in Range(aliases) :
         /\ synced # Never
         /\ synced < e.at
         /\ e.at < job[r].synonymsBegun
         /\ e.from \notin job[r].synonymsPassed
         /\ e.to \in KnownTags(r)
         => synonyms'[e.from] # NoTag]_vars

\* cli.rs:27 says of --dry-run "do not write to DB": no step of a run that
\* was given it changes a table.
DryRunWritesNothing ==
  [][\A r \in Run : job[r].dry /\ Step(r) => UNCHANGED dbVars]_vars

Tables == INSTANCE TagTables
            WITH tags <- {t \in Tag : tags[t] # Never},
                 SoTag <- Tag, SoSynonym <- Synonym \X Tag

\* TagSync implements TagTables, which the API relies on: however runs
\* overlap, fail and load old files, a statement that changes a table only
\* inserts tags, or synonyms with tags that are in the table by then, although
\* the tags they were resolved with were read some statements earlier.
ImplementsTables == Tables!Init /\ [][dbVars' # dbVars => Tables!Next]_vars
=============================================================================
