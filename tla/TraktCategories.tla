--------------------------- MODULE TraktCategories ---------------------------
(***************************************************************************)
(* One call of process_trakt_categories_for_target                         *)
(* (src/processing/processor/trakt_categories.rs) together with the        *)
(* TraktClient it creates (src/utils/network/trakt.rs).                    *)
(*                                                                         *)
(* The call fetches every configured list through get_all_lists (a cache  *)
(* keyed by "user:slug" that lives as long as the client, i.e. this call), *)
(* then, list by list, matches the playlist's channels with the list's     *)
(* items (TMDB id first, then the best fuzzy title score) and builds one   *)
(* category per list, its channels sorted by Trakt rank.                   *)
(*                                                                         *)
(* Abstractions: the HTTP exchange is a success returning the list's items *)
(* (TraktData) or an error; normalize_title_for_matching, DoubleMetaphone  *)
(* and jaro_winkler are folded into the similarity operators TitleSim and  *)
(* PhoneticSim over cleaned titles; scores are in thousandths; the         *)
(* playlist is its channels in group order, a channel's uuid its index.    *)
(***************************************************************************)
EXTENDS Integers, Sequences, SequencesExt

CONSTANTS
    Lists,          \* the TraktListConfig vector: [user, slug, ctype, threshold]
    Playlist,       \* channels: [cluster, props, title]
    TraktData,      \* cache key -> the items the Trakt API returns for it
    TitleSim(_, _), \* jaro_winkler of two normalized titles, in thousandths
    PhoneticSim(_, _), \* jaro_winkler of their double metaphone codes
    Times,          \* the values the wall clock (SystemTime) may show, seconds
    None            \* Option::None

VARIABLES
    phase,      \* "fetch", "match", "done", "failed" (Err returned), "panicked"
    i,          \* index of the list config the current loop is at
    now,        \* the wall clock
    cache,      \* TraktClient.cache: key -> last_updated of its entry, or None
    results,    \* get_all_lists' results: key -> TRUE once fetched
    errors,     \* get_all_lists' errors: indices of the failed list configs
    categories, \* new_categories: [list, channels, cluster]
    found       \* ghost: the matches computed for each processed list

vars == <<phase, i, now, cache, results, errors, categories, found>>

Keys == {Lists[n].user \o ":" \o Lists[n].slug : n \in DOMAIN Lists}

(* format!("{}:{}", user, list_slug) *)
CacheKey(l) == l.user \o ":" \o l.slug

CACHE_EXPIRY_HOURS == 6
YEAR_MATCH_BONUS == 100
NoRank == 9999

-----------------------------------------------------------------------------
(* TraktClient                                                             *)

(* is_cache_valid: (now - last_updated) / 3600 < 6 on u64. When the clock  *)
(* is behind last_updated the subtraction wraps (release build) to nearly  *)
(* 2^64 seconds, so the entry is stale; a build with overflow checks       *)
(* panics instead (Underflows).                                           *)

IsCacheValid(at) ==
    /\ now >= at
    /\ (now - at) \div 3600 < CACHE_EXPIRY_HOURS

Underflows(at) == now < at

(* get_list_items for a key whose entry is missing or stale: the request   *)
(* succeeds, the items are returned and cached with the current time;      *)
(* every error path (headers, send, status, body, JSON) returns Err and    *)
(* leaves the cache alone.                                                 *)
FetchOk(k) ==
    /\ cache' = [cache EXCEPT ![k] = now]
    /\ results' = [results EXCEPT ![k] = TRUE]
    /\ UNCHANGED errors

FetchErr(k) ==
    /\ errors' = Append(errors, i)
    /\ UNCHANGED <<cache, results>>

(* One iteration of the loop of get_all_lists, with get_list_items inline. *)
GetListItems ==
    /\ phase = "fetch" /\ i <= Len(Lists)
    /\ LET k == CacheKey(Lists[i]) IN
       \/ /\ cache[k] # None /\ IsCacheValid(cache[k])
          /\ results' = [results EXCEPT ![k] = TRUE]
          /\ i' = i + 1
          /\ UNCHANGED <<phase, cache, errors>>
       \/ /\ cache[k] # None /\ Underflows(cache[k])
          /\ phase' = "panicked"
          /\ UNCHANGED <<i, cache, results, errors>>
       \/ /\ IF cache[k] = None THEN TRUE ELSE ~IsCacheValid(cache[k])
          /\ FetchOk(k) \/ FetchErr(k)
          /\ i' = i + 1
          /\ UNCHANGED <<phase>>
    /\ UNCHANGED <<now, categories, found>>

GetAllListsDoneAnyError ==
    /\ phase = "fetch" /\ i > Len(Lists)
    /\ phase' = IF errors # <<>> THEN "failed" ELSE "match"
    /\ i' = 1
    /\ UNCHANGED <<now, cache, results, errors, categories, found>>

(* GetAllListsDoneAnyError returns Err as soon as one list failed.         *)
(* The end of get_all_lists: Err only when nothing was fetched and some    *)
(* list failed; process_trakt_categories returns that Err at once.         *)
GetAllListsDone ==
    /\ phase = "fetch" /\ i > Len(Lists)
    /\ phase' = IF (\A k \in Keys : ~results[k]) /\ errors # <<>>
                THEN "failed" ELSE "match"
    /\ i' = 1
    /\ UNCHANGED <<now, cache, results, errors, categories, found>>

(* The wall clock moves, forwards or (being SystemTime) backwards, while   *)
(* the requests are under way.                                             *)
Tick ==
    /\ phase = "fetch"
    /\ \E t \in Times \ {now} : now' = t
    /\ UNCHANGED <<phase, i, cache, results, errors, categories, found>>

-----------------------------------------------------------------------------
(* Matching                                                                *)

(* should_include_item *)
ShouldIncludeItem(it, l) == l.ctype = "both" \/ it.ctype = l.ctype

(* is_compatible_content_type *)
IsCompatible(cluster, l) ==
    CASE l.ctype = "vod"    -> cluster = "video"
      [] l.ctype = "series" -> cluster = "series"
      [] l.ctype = "both"   -> cluster \in {"video", "series"}

(* extract_tmdb_id_from_playlist_item: props is None when the additional   *)
(* properties are absent or not a JSON object; a "tmdb" key wins over      *)
(* "tmdb_id" even when its value is not a u32 ("bad").                    *)
ExtractTmdbId(ch) ==
    LET U32(v) == IF v = "bad" THEN None ELSE v
    IN  CASE ch.props = None           -> None
          [] ch.props.tmdb # "absent"   -> U32(ch.props.tmdb)
          [] ch.props.tmdb_id # "absent" -> U32(ch.props.tmdb_id)
          [] OTHER                       -> None

(* extract_year_from_title: a trailing 4-digit number is a year only       *)
(* within 1900..=2100; only then is it cut from the title.                 *)
ExtractYear(t) ==
    IF t.suffix # None /\ 1900 <= t.suffix /\ t.suffix <= 2100
    THEN [clean |-> [name |-> t.name, suffix |-> None], year |-> t.suffix]
    ELSE [clean |-> t, year |-> None]

FuzzyScoreUncapped(ch, it) ==
    LET p == ExtractYear(ch.title)
        q == ExtractYear(it.title)
        s == (8 * TitleSim(p.clean, q.clean) + 2 * PhoneticSim(p.clean, q.clean)) \div 10
    IN  IF p.year # None /\ q.year # None
        THEN IF p.year = q.year
             THEN [score |-> s + YEAR_MATCH_BONUS, type |-> "FuzzyTitleYear"]
             ELSE [score |-> (s * 8) \div 10, type |-> "FuzzyTitle"]
        ELSE [score |-> s, type |-> "FuzzyTitle"]

(* The combined score of find_best_fuzzy_match for one Trakt item; the    *)
(* year bonus is capped at 1.0. FuzzyScoreUncapped omits the cap.         *)
FuzzyScore(ch, it) ==
    LET p == ExtractYear(ch.title)
        q == ExtractYear(it.title)
        s == (8 * TitleSim(p.clean, q.clean) + 2 * PhoneticSim(p.clean, q.clean)) \div 10
    IN  IF p.year # None /\ q.year # None
        THEN IF p.year = q.year
             THEN [score |-> IF s + YEAR_MATCH_BONUS > 1000 THEN 1000
                             ELSE s + YEAR_MATCH_BONUS,
                   type |-> "FuzzyTitleYear"]
             ELSE [score |-> (s * 8) \div 10, type |-> "FuzzyTitle"]
        ELSE [score |-> s, type |-> "FuzzyTitle"]

MatchResult(c, it, sc, ty) == [uuid |-> c, item |-> it, score |-> sc, type |-> ty]

(* One step of the loop of find_best_fuzzy_match: a strictly better score  *)
(* replaces the best match.                                                *)
BetterFuzzyGe(c, acc, it) ==
    LET f == FuzzyScore(Playlist[c], it)
    IN  IF f.score >= acc.score
        THEN [score |-> f.score, best |-> MatchResult(c, it, f.score, f.type)]
        ELSE acc

BetterFuzzy(c, acc, it) ==
    LET f == FuzzyScore(Playlist[c], it)
    IN  IF f.score > acc.score
        THEN [score |-> f.score, best |-> MatchResult(c, it, f.score, f.type)]
        ELSE acc

(* find_best_fuzzy_match: best_score starts at threshold / 100.            *)
FindBestFuzzyMatch(c, items, l) ==
    FoldLeft(LAMBDA acc, it : BetterFuzzy(c, acc, it),
             [score |-> l.threshold * 10, best |-> None], items).best

(* The body of the channel loop of match_trakt_items_with_playlist: one    *)
(* TmdbExact match per item with the channel's TMDB id (the `continue`     *)
(* only moves to the next item), then the best fuzzy match, if any.        *)
MatchChannel(c, items, l) ==
    LET id    == ExtractTmdbId(Playlist[c])
        exact == IF id = None THEN <<>>
                 ELSE SelectSeq(items, LAMBDA it : it.tmdb # None /\ it.tmdb = id)
        fuzzy == FindBestFuzzyMatch(c, items, l)
    IN  IF ~IsCompatible(Playlist[c].cluster, l) THEN <<>>
        ELSE [n \in DOMAIN exact |-> MatchResult(c, exact[n], 1000, "TmdbExact")]
             \o (IF fuzzy = None THEN <<>> ELSE <<fuzzy>>)

(* match_trakt_items_with_playlist *)
MatchTraktItems(items, l) ==
    LET included == SelectSeq(items, LAMBDA it : ShouldIncludeItem(it, l))
    IN  FlattenSeq([c \in DOMAIN Playlist |-> MatchChannel(c, included, l)])

-----------------------------------------------------------------------------
(* Building the category                                                   *)

RankOf(m) == IF m.item.rank = None THEN NoRank ELSE m.item.rank

(* sort_by on rank.unwrap_or(9999), descending: the comparator reversed.   *)
SortByRankDesc(ms) ==
    LET idx == SortSeq([n \in DOMAIN ms |-> n],
                 LAMBDA a, b : RankOf(ms[a]) > RankOf(ms[b])
                               \/ (RankOf(ms[a]) = RankOf(ms[b]) /\ a < b))
    IN  [n \in DOMAIN ms |-> ms[idx[n]]]

(* sort_by on rank.unwrap_or(9999); slice::sort_by is stable.              *)
SortByRank(ms) ==
    LET idx == SortSeq([n \in DOMAIN ms |-> n],
                 LAMBDA a, b : RankOf(ms[a]) < RankOf(ms[b])
                               \/ (RankOf(ms[a]) = RankOf(ms[b]) /\ a < b))
    IN  [n \in DOMAIN ms |-> ms[idx[n]]]

(* create_category_from_matches: every match's uuid is found in the        *)
(* playlist index, so every match contributes its channel.                 *)
CreateCategory(n, ms) ==
    LET sorted   == SortByRank(ms)
        channels == [k \in DOMAIN sorted |-> sorted[k].uuid]
        l        == Lists[n]
    IN  [list     |-> n,
         channels |-> channels,
         cluster  |-> CASE l.ctype = "vod"    -> "video"
                        [] l.ctype = "series" -> "series"
                        [] l.ctype = "both"   -> IF channels = <<>> THEN "video"
                                                 ELSE Playlist[channels[1]].cluster]

(* One iteration of the list loop of process_trakt_categories.             *)
ProcessList ==
    /\ phase = "match" /\ i <= Len(Lists)
    /\ LET k  == CacheKey(Lists[i])
           ms == MatchTraktItems(TraktData[k], Lists[i])
           cat == CreateCategory(i, ms)
       IN  IF results[k]
           THEN /\ found' = [found EXCEPT ![i] = ms]
                /\ categories' = IF ms # <<>> /\ cat.channels # <<>>
                                 THEN Append(categories, cat) ELSE categories
           ELSE UNCHANGED <<found, categories>>
    /\ i' = i + 1
    /\ UNCHANGED <<phase, now, cache, results, errors>>

ProcessDone ==
    /\ phase = "match" /\ i > Len(Lists)
    /\ phase' = "done"
    /\ UNCHANGED <<i, now, cache, results, errors, categories, found>>

(* The call has returned (Ok, Err or a panic): nothing more happens.       *)
Returned ==
    /\ phase \in {"done", "failed", "panicked"}
    /\ UNCHANGED vars

-----------------------------------------------------------------------------
(* A fresh TraktClient per call: an empty cache. No list configured        *)
(* returns Ok(vec![]) before anything is fetched.                          *)
Init ==
    /\ phase = IF Lists = <<>> THEN "done" ELSE "fetch"
    /\ i = 1
    /\ now \in Times
    /\ cache = [k \in Keys |-> None]
    /\ results = [k \in Keys |-> FALSE]
    /\ errors = <<>>
    /\ categories = <<>>
    /\ found = [n \in DOMAIN Lists |-> None]

Next ==
    \/ GetListItems
    \/ GetAllListsDone
    \/ Tick
    \/ ProcessList
    \/ ProcessDone
    \/ Returned

Spec == Init /\ [][Next]_vars

-----------------------------------------------------------------------------
(* Properties                                                              *)

TypeOK ==
    /\ phase \in {"fetch", "match", "done", "failed", "panicked"}
    /\ i \in 1..(Len(Lists) + 1)
    /\ now \in Times
    /\ cache \in [Keys -> Times \cup {None}]
    /\ results \in [Keys -> BOOLEAN]
    /\ \A n \in Range(errors) : n \in DOMAIN Lists
    /\ \A c \in Range(categories) :
          /\ c.list \in DOMAIN Lists
          /\ c.cluster \in {"video", "series"}
          /\ \A u \in Range(c.channels) : u \in DOMAIN Playlist
    /\ \A n \in DOMAIN Lists :
          found[n] = None \/ \A m \in Range(found[n]) : m.score \in 0..1000

(* A channel is listed at most once in a Trakt category: the comment of   *)
(* match_trakt_items_with_playlist says fuzzy matching runs only "if no   *)
(* TMDB match", and a category is one entry per matched channel.          *)
NoChannelTwiceInCategory ==
    \A c \in Range(categories) : IsInjective(c.channels)

(* create_category_from_matches lists a category's channels by ascending  *)
(* Trakt rank (no rank sorts as 9999), and channels of equal rank in the  *)
(* order they were matched: some order-preserving-within-ties permutation *)
(* of the matches gives the channel list.                                 *)
CategoryInRankOrder ==
    \A c \in Range(categories) :
       LET ms == found[c.list]
       IN  \E p \in [DOMAIN ms -> DOMAIN ms] :
              /\ IsInjective(p)
              /\ c.channels = [k \in DOMAIN ms |-> ms[p[k]].uuid]
              /\ \A a, b \in DOMAIN ms : a < b =>
                    \/ RankOf(ms[p[a]]) < RankOf(ms[p[b]])
                    \/ RankOf(ms[p[a]]) = RankOf(ms[p[b]]) /\ p[a] < p[b]

(* A fuzzy match of find_best_fuzzy_match scores strictly above the       *)
(* list's fuzzy_match_threshold, no included item of the list scores      *)
(* higher for that channel, and no earlier item scores as high (the first *)
(* of equally good items wins).                                           *)
FuzzyMatchIsBest ==
    \A n \in DOMAIN Lists : found[n] # None =>
       LET l     == Lists[n]
           items == SelectSeq(TraktData[CacheKey(l)], LAMBDA it : ShouldIncludeItem(it, l))
       IN  \A m \in Range(found[n]) : m.type # "TmdbExact" =>
              /\ m.score > l.threshold * 10
              /\ \E j \in DOMAIN items :
                    /\ items[j] = m.item
                    /\ \A j2 \in DOMAIN items :
                          LET s == FuzzyScore(Playlist[m.uuid], items[j2]).score
                          IN  s <= m.score /\ (j2 < j => s < m.score)

(* get_all_lists drops the errors of the failed lists when any list was    *)
(* fetched, and process_trakt_categories then goes by the results alone:  *)
(* the call fails only when every configured list failed, and when it     *)
(* returns Ok, a list has a category exactly when its key was fetched (by *)
(* it or by another config with the same user:slug) and it matched some   *)
(* channel; a failed list silently has none.                              *)
ListsAccountedFor ==
    /\ phase = "failed" => Len(errors) = Len(Lists)
    /\ phase = "done" =>
          \A n \in DOMAIN Lists :
             LET k == CacheKey(Lists[n])
             IN  (\E c \in Range(categories) : c.list = n)
                    <=> results[k] /\ MatchTraktItems(TraktData[k], Lists[n]) # <<>>

=============================================================================
