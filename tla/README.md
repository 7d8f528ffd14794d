# TLA+ models of tuliprox

This directory holds TLA+ models of parts of tuliprox (the Rust sources under
`src/`), the TLC configurations that check them, and `PROJECT.json`, which
lists every component, run, mutant, finding and hazard and maps each TLA+
definition to the source lines it models.

## 1. The system and its parts

| Part | Source | State and operations | Concurrency / hard behaviour |
|---|---|---|---|
| MapperScript grammar and AST builder | `backend/src/foundation/mapper.rs` 16-56, 204-536 | `expressions` arena, `statements`; `parse`, `parse_statement`, `parse_assignment`, `parse_match_case`, `parse_map_case(_key)`, `parse_expression`, `parse_map_block` | post-order arena push, `Ok(None)` for empty blocks dropped by parents |
| MapperScript validator | mapper.rs 206-219, 592-737 | growing identifier set; `validate`, `validate_expr`, `validate_match_block`, `validate_map_block` | single forward pass; names defined inside branches leak |
| MapperScript evaluator | mapper.rs 170-203, 538-590, 862-1184 | `MapperContext.variables`, the record behind `ValueAccessor`; `eval`, `Statement::eval`, `Expression::eval` | soft failures, early returns in match/map, per-record context |
| Value algebra | mapper.rs 732-861, 902-935 | pure: `to_number`, `compare_number`, `format_number`, `matches`, `compare`, `concat_args`, regex captures | epsilon equality, f64-to-i64 cast, one-capture boundary |
| Mapping configuration | `backend/src/model/mapping.rs` | `MappingDefinition::prepare`, `Mapping::prepare`, `Mapper::prepare` compile filters and scripts with templates; `get_mapping`; counters (`Arc<AtomicU32>`) shared by clones | stops at the first error, leaving a half-prepared definition; counters shared across clones |
| Trakt categories | `src/processing/processor/trakt_categories.rs` | lists fetched, channels matched by TMDB id then fuzzy title, categories built sorted by rank | exact and fuzzy matching of the same channel; partial list failures |
| Trakt client | `src/utils/network/trakt.rs` | per-client cache `user:slug -> items, last_updated`; `get_list_items`, `get_all_lists` | cache age computed with u64 subtraction; errors dropped when any list succeeds |
| API proxy configuration | `backend/src/model/config/api_proxy.rs`, `shared/src/model/config/api_proxy.rs` | servers, users per target; `prepare`, `migrate_api_user`, `get_target_name(_by_token)` | migration writes the user file, the config and deletes the old db in sequence |
| Xtream info processing | `backend/src/processing/processor/xtream.rs` | processed provider ids with timestamps; `should_update_info`, `read_processed_info_ids`, `playlist_resolve_download_playlist_item` | load failures swallowed, resolve delay |
| Web UI authentication | `backend/src/model/config/web_auth.rs` | `userfile`, `t_users`; `prepare` (find and read the user file), `get_user_password` | `map_while` stops at the first unreadable line; first case-insensitive match wins |
| IP check configuration | `backend/src/model/config/ip_check.rs` | `IpCheckConfig::prepare` (URLs trimmed, regexes compiled) | fields rewritten before the checks |
| Other configuration and I/O | `xmltv.rs`, `logging.rs`, `json_utils.rs`, `healthcheck.rs`, `repository/mod.rs` | preparation of configuration values, file and XML writing | sequential, I/O-bound |

How they interact: a `Mapping` (mapping.rs) compiles its script with
`MapperScript::parse` once, when the configuration is prepared; the playlist
processor then calls `MapperScript::eval` once per playlist item, with a
`ValueAccessor` over that item. The Trakt processor runs after playlist
processing for xtream targets and builds extra playlist groups from lists
fetched by the Trakt client. The API proxy configuration is read and
migrated at start-up and looked up per request.

## 2. Modules

### MapperValue (value algebra, pure operators)

Strings are sequences of one-character strings over a small alphabet
(`0-9`, space, `,`, `-`, `.`, `:`, `A`, `a`) compared by their ASCII code,
as `String::cmp` does. An f64 is an integer in units of 1/10000
(`Scale`), so 1e-3 is `Epsilon == 10`; `FormatNumber` prints the integer
part when the fraction is below epsilon and otherwise the shortest decimal,
and `ParseF64` parses what `str::parse::<f64>` accepts over the alphabet.
Regexes are three fixed patterns whose captures are computed by a scan:
`Digits` = `(\d+)`, `UpperDigit` = `(?<a>[A-Z])(?<aa>\d)` (four groups per
match: 1, 2, a, aa) and `NoGroup` = `\d` (matches without groups).
`RegexResult` is the RegexExpr rule: no capture is Undefined, one is a
Value, more are Named.

`MCLaws` checks laws of this algebra, of `WebAuth`, `TraktTitle`,
`MappingConfig`, `IpCheck` and `XtreamInfo` over bounded inputs: a state
is one input record tagged with its law (`value`: two `EvalResult`s `a`,
`b` and one numeric map-case key; `login`: a user file, a name and where
the file lies; `year`: a title base, a year and how it is attached;
`mapping`: a mapping definition as read; `ipcheck`: an IP check config;
`xtream`: stored info records, an item and one download's outcome) and `Next` leaves it alone, so each
law is an invariant over every input. The
numbers sit on and next to the epsilon boundaries (0.0005, 0.0009, 0.001,
0.0011, 8.9995, 9.0005 ...) and the texts include numbers that parse
("9.0005", "-0.001", "1.") and ones that do not.

### MapperScript (compile once, evaluate many)

State: `phase` (build, compiled, rejected, eval, done), `arena` (the
expressions vector, 1-based), `stack` (completed sub-expressions the
lowering has not yet attached to a parent), `stmts`, `pc` (next statement),
`vars` (`MapperContext.variables`), `rec` (the record behind the accessor),
and the ghosts `raised` (names a variable-not-found failure was produced
for) and `log` (the outcome of each match/map block evaluated).

Actions:

- `ParseLeaf`, `ParseAssignment`, `ParseFunctionCall`, `ParseBlockExpr`,
  `ParseMatchBlock`, `ParseMapBlock`: one step of the post-order lowering in
  `parse_expression`; each appends the node after its children, exactly as
  the Rust recursion pushes a child before its parent. A match or map block
  whose cases all lowered to None is itself None (`NoExpr`); an assignment
  of None is None; a None argument or block element is dropped. A match key
  list with more than one key containing `_` is a parse error.
- `ParseStatement`: `parse_statement` for the oldest pending expression.
- `Parse`: the end of `MapperScript::parse`: `validate`, then compiled or
  rejected.
- `EvalScript`: `MapperScript::eval` on one of the records with a fresh
  context; `EvalStatement`: `Statement::eval` of the next statement (the
  whole recursive `Expression::eval`, as the operator `Eval`); `EvalDone`:
  the loop ends. A compiled script is evaluated again and again on any
  record, as the playlist processor does for every item.
- `Rejected`: a rejected script stays rejected (no evaluation).

`Eval` threads a context record `[vars, rec, raised, log]` through the
expression tree in the order the Rust code evaluates children; each early
`return` of the Rust code is an `IF` returning at the same point.

### TraktCategories (one Trakt processing pass with its client)

`process_trakt_categories_for_target` together with the `TraktClient` it
creates. State: `phase` (fetch, match, done, failed, panicked), `i` (the
next list to fetch or process), `now` (the wall clock in seconds),
`cache` (`user:slug` key to the `last_updated` of its entry, or None),
`results`, `errors` (of `get_all_lists`), `categories` (records of list,
channels and cluster), and the ghost `found` (the matches of each list).

- `GetListItems`: one list of `get_all_lists`: a valid cache entry is a
  hit; an entry whose `last_updated` lies after `now` makes the u64
  subtraction underflow (`panicked`); otherwise a fetch that succeeds
  (cached with `now`) or fails (error recorded).
- `GetAllListsDone`: no list succeeded and some failed is an error
  (`failed`); otherwise matching starts. `Tick`: the clock moves to
  another value of `Times`, also backwards (a system clock may be reset).
- `ProcessList`: `match_trakt_items_with_playlist` for one list
  (`MatchTraktItems`: per item, the exact TMDB matches, then the best fuzzy
  match) and `create_category_from_matches` (`CreateCategory`: sort by rank,
  keep the channels, the cluster of a "both" list). `ProcessDone` ends.

`ListsAccountedFor` relates the end state to the fetch results: the pass
fails only when every list failed (one error per list), and when it is
done a list has a category exactly when its fetch succeeded and matched a
channel, so the errors of failed lists are dropped whenever one succeeds.

Title similarity (Jaro-Winkler) and phonetic similarity (double metaphone)
are the constant tables `TitleSim` and `PhoneticSim` in per-mille; the
score arithmetic around them (the 80/20 weighting, the year bonus capped at
1000, the penalty for different years, the threshold comparison) is kept.

### ApiProxyConfig (prepare and credential lookup)

`Configs` is the set of configurations read from the file; `Prepare` runs
`ApiProxyConfig::prepare` (`PrepareServerConfig`, then `PrepareTargetUser`,
each a fold over the loops of the code, collecting errors) and `Serve`
stays. `ok` is whether the errors vector stayed empty. `ValidConfig` is the
declarative reference: after trimming, server names, usernames and
non-blank tokens are unique, ports are valid u16 values, and every
credential's server exists. `GetTargetName` and `GetTargetNameByToken` are
the two lookups of a request.

`PrepareConfig` is the whole of `prepare` as one operator, so the
property `PrepareIdempotent` can ask what a second `prepare` of an
accepted configuration does (the configuration is prepared again when it
is reloaded): it accepts it and changes nothing.

### WebAuth (Web UI user file and login)

`WebAuthConfig::prepare` and `get_user_password` (web_auth.rs 23-66) as
operators. The file system is a record of the paths that exist, those
that cannot be opened and each path's lines; a line is a character
sequence or `ReadError` (a line `lines()` yields as `Err`). `Prepare`
stores the user file name (configured or default), looks it up as given
and then under the configuration directory, fails when it is missing or
unopenable, and otherwise fills `t_users` with `UserFileLines`: the lines
before the first unreadable one (`LinesUntilError`, `map_while`), each
with a `:` parsed by `ParseLine` into the trimmed text before the first
`:` and up to the second. `GetUserPassword` is the first user whose name
is equal ignoring ASCII case. `WebLoginMatchesFile` (in `MCLaws`) compares
the result with `FilePassword`, a reference written from sets of colon
positions rather than a scan.

### MappingConfig (mapping configuration prepare)

`MappingDefinition::prepare`, `Mapping::prepare`, `Mapper::prepare` and
`Mappings::get_mapping` (mapping.rs 156-263) as operators over records
whose `t_` fields start as None, as serde leaves them. Each
`for x in xs { x.prepare(..)?; }` loop is `StopAtFirstError`, a left fold
that stops preparing at the first failure and keeps the later items as
read. `MapperPrepare` stores `t_filter` before the script is expanded and
parsed; `MappingPrepare` stores the templates first and builds the
counters into a local vector that becomes `t_counter` only when all
succeed. `get_filter`, `prepare_templates` and the template expansion
are outside this tree: a text is rejected exactly when it is in
`BadFilters`, `BadScripts` or `BadTemplates`. `PrepareStopsAtFirstError`
(in `MCLaws`) compares the result with a reference built from the index
of the first failing mapping and mapper.

### IpCheck and XtreamInfo (configuration and resolve helpers)

`IpCheck!Prepare` is `IpCheckConfig::prepare`: the three URLs trimmed
(blank to None), the no-URL error, then the IPv4 and IPv6 regexes
(`Regex::new` rejects `BadPatterns`). `XtreamInfo` holds
`read_processed_info_ids` (storage path error reported, a record file
that fails to load read as empty without an error),
`should_update_info` and `playlist_resolve_download_playlist_item` (no
provider id returns before the resolve delay). Their laws
`IpCheckPrepareNormalForm` and `XtreamInfoResolve` are in `MCLaws`.

### ApiUserMigration (moving users between the config file and the db)

`migrate_api_user` as the file operations it performs, each of which may
fail (`Failures`), with the process able to stop or die between any two
(`Crash`, at most `MaxRestarts` times) and the administrator switching
`use_user_db` while it is stopped (`SwitchStore`). A credential is a
`<<target, username>>` pair and a user list is a set of them; the merge
loop of lines 264-274 is set union. `known` records what both stores held
at first. `merge_api_user`, `load_api_user` and `backup_api_user_db_file`
are outside this tree and are modelled as adding to, reading and copying
the db, or failing.

### ApiUsers (what the user storage promises) and the refinement

`ApiUsers` is the abstract specification: the set `users` of API users
never changes, a stopped process is eventually booted (weak fairness of
`Boot`), an error-free start-up serves every user and a start-up with
errors serves some of them. `ApiUserMigration` implements it under the
mapping `users <- fileUsers \cup DbUsers` (what both stores hold),
`served <- user` once start-up is `done`, and `status` from `pc` and
`errors`; `ApiUsersSpec == Abs!Spec` is checked as a PROPERTY under
`FairSpec`.

### TraktTitle (title helpers of the Trakt client)

`normalize_title_for_matching` and `extract_year_from_title` (trakt.rs
183-217) as operators over character sequences: trim, deunicode (one
accented letter stands for all), lowercase, the `[^a-z0-9\s]` deletion,
`split_whitespace` and `join(" ")`, the `\(?(\d{4})\)?$` suffix with its
1900..2100 range and the two `str::replace` calls. `MCTraktTitleTest` holds
the three cases of `test_normalize_title` (lines 224-228).
`YearSuffixSplit` (in `MCLaws`) checks the year split over the four forms
` (y)`, `(y)`, ` y` and a glued `y`, for years on both sides of 1900 and
2100.

## 3. Runs

| Run | Config | Expect | What it shows |
|---|---|---|---|
| mapper_compile | MCMapperScript.cfg | pass | All scripts of up to 4 nodes over x, @name, "1", a regex and number(): compiled scripts have a well-formed arena (spec 8.1), values have their type, and at run time only names that some assignment defines can be missing. |
| mapper_selfref | MCMapperScript_selfref.cfg | violation | `x = x` compiles and then fails with variable-not-found. |
| mapper_mapkey | MCMapperScript_mapkey.cfg | violation | `x = @name ~ "(?<a>[A-Z])(?<aa>\d)"; map x.a { _ => "1" }` on "A1" yields "A", not "1". |
| mapper_match_missing | MCMapperScript_match.cfg | violation | a match whose first case key is unset returns Failure although `_` could fire. |
| operator_laws | MCLaws.cfg | pass | 24 values and 4 map-case keys: a number printed by `format_number` compares Equal to, and matches, itself when compared back as text (the print tolerance and `compare_number`'s strict one agree at 0.001), `compare` is antisymmetric and agrees with `matches`, and a numeric key matches its bounds widened by epsilon on both sides; 400 user files of up to three lines in five placements: a login after `prepare` gets exactly the password of the first readable line naming the user; 80 titles: a trailing year is split off exactly within 1900..2100; 59223 mapping definitions: prepare fails exactly when something is rejected and leaves exactly the prefix it prepared, and get_mapping finds the first mapping of an id; 1125 IP check configs: prepare accepts exactly those with a non-blank URL and valid patterns, normalises the URLs and is idempotent; 2592 Xtream cases: an item is resolved again exactly when no readable record holds its timestamp, and a record file that fails to load is silent. |
| trakt_categories | MCTraktCategories.cfg | pass | Three lists (a "both" list with a fuzzy threshold, a vod list, a series list) over four channels, with fetch errors and a clock at 0, 21599 and 21600 s: categories are in rank order with ties kept stable, every fuzzy match is the best-scoring candidate, and the pass fails only when every list failed, otherwise giving a category exactly to the fetched lists that matched a channel. |
| trakt_duplicate_channel | MCTraktCategories_dup.cfg | violation | A channel that matched an item by TMDB id is fuzzy-matched again by the same item and appears twice in the category. |
| trakt_normalize_test | MCTraktTitleTest.cfg | violation | `normalize_title_for_matching("Spider-Man: No Way Home")` is "spiderman no way home", not the "spider man no way home" its unit test asserts. |
| api_prepare | MCApiProxyConfig.cfg | pass | All 12321 configurations of up to two servers and two targets with blank-padded names, ports and tokens: prepare accepts exactly the valid ones, afterwards each credential is the one both lookups find, and preparing an accepted configuration again accepts it unchanged. |
| api_user_migration | MCApiUserMigration.cfg | pass | Merge, save, backup and remove failures, up to three crashes and store switches: no credential leaves both stores, an error-free start-up serves the selected store's users, and under weak fairness of the start-up steps the migration refines `ApiUsers` (users kept, start-up always ends serving). |
| api_user_migration_load_failure | MCApiUserMigration_load.cfg | violation | With `use_user_db` off, an unreadable db is skipped, the config is saved without its users and the db is deleted. |

Bounds. The builder enumerates every tree up to `MaxNodes` nodes with at
most `MaxArgs` children per node and `MaxStack` pending sub-expressions.
Four nodes cover one statement with a nested block, a match or map with
two cases, or two statements. Two records are enough to tell "case fires" from "case does not
fire". Larger vocabularies grow the state space by an order of magnitude
per node, so each run takes the part of the vocabulary its question needs.

The Trakt run's clock values are the two sides of the 6-hour expiry and a
zero; three lists make a repeated `user:slug` key, a failing fetch next to a
successful one, and each content type occur; the item table holds an exact
and a fuzzy match of the same channel, ties in rank, and years that differ
and agree. The prepare run's 3-character texts are enough to tell trimmed
from untrimmed, blank from empty and case-different names. Two credentials
and three restarts let a crash fall between any two of the migration's
file operations, in either store mode, and a second start-up follow it.

The login inputs are every user file of up to three lines drawn from
seven lines (one with a second `:`, one with an empty name, names that
differ only in case, a line without `:`, an unreadable line), three names
and five placements (working directory, configuration directory, both
with different contents, nowhere, unopenable): enough for a user after an
unreadable line, a duplicate in another case, and the lookup order. The
year inputs take 1899, 1900, 2000, 2100 and 2101 in each of the four
suffix forms after bases that are empty, end in a word or end in a blank.
The mapping definitions are every list of up to two mappings (ids a or
b, so duplicate ids occur) with up to two mappers whose filter or script
may be rejected and up to one counter with a good, non-counter (`group`)
or rejected filter, under absent, accepted or rejected templates: enough
for a failure in the first or second mapping, in the first or second
mapper, in the counters after good mappers, and a shadowed duplicate id.
The IP check URLs are absent, empty, blank, padded or plain; the Xtream
records hold ids 1 and 2 with timestamps 0 and 5 against items with and
without id and timestamp.

Fairness. Only `api_user_migration` assumes any: weak fairness of
`StartupStep`, every step of `migrate_api_user` and of start-up but not
`Crash` or `SwitchStore`. Start-up runs straight through without waiting
on anything but the file system, and a stopped process is started again
by its service manager, so a step that stays enabled is eventually taken;
crashes and store switches are the environment's and are not forced. A
failing file operation is a state change, so fairness does not force it
to succeed, but a failure ends start-up with errors (degraded), which the
abstract spec allows. The other properties are safety properties; the
statement loop has no waiting, and its termination holds by the structure
of the model (each evaluation step advances `pc`). The Trakt pass, prepare
and migration end in a state (`done`, `failed`, `Serve`) that stutters: the
process goes on serving, which is why deadlock is not reported there.

## 4. Findings

See `PROJECT.json` "findings": the validator defines the assigned name
before validating the right-hand side (spec 4.3 says the reverse); a map
block keyed on `var.field` returns the field value from the whole block
(spec 9 open question); a match block with an unset key variable fails as
a whole instead of trying the next case (spec 4.5); the Trakt matcher
adds a channel to a category twice when its exact TMDB match is followed by
a fuzzy match of the same item (trakt_categories.rs 134, against the comment
"if no TMDB match"); `migrate_api_user` deletes the user db after a failed
load with `use_user_db` off (api_proxy.rs 263, against the comment at
261-262); `normalize_title_for_matching` deletes punctuation instead of
replacing it by a space, so its own unit test (trakt.rs 226) fails.

## 5. Not modelled, and the plan

- The text level of the grammar (whitespace, comments, quoting, escape
  sequences) and regex compilation: statements are modelled as trees.
- `print` only logs; the trace log is left out.
- Templates are a constant list (`Templates`); the runs use none.
- Numbers beyond the fixed-point range, NaN and the `as i64` saturation.

- Trakt: the HTTP request, JSON decoding, the Jaro-Winkler and double
  metaphone scores (constant tables; TraktCategories folds the title
  helpers of TraktTitle into them); the cache is per client and the client per call, so it never outlives one pass.
- API proxy: `has_permissions` and `connection_permission` (expiry against
  the wall clock and the connection manager, outside this tree), URLs.
- The shared `api_proxy.rs` DTO holds the same `prepare` as the backend
  one (it has no lookups) and is covered by `ApiProxyConfig`.
- Mapping: `MapperOperation::prepare` (called by nothing in this tree),
  the serde conversions of `CounterModifier`, and the counters' use: they
  are incremented by playlist processing outside this tree, so their
  sharing across `get_mapping` clones has no behaviour here to check.
- Xtream: `normalize_json_content` (JSON rewriting) and the WAL file
  creation helpers (file I/O only); the writers that race with the read
  lock of `read_processed_info_ids` are outside this tree.
- XMLTV, logging, JSON utilities, healthcheck: formatting and I/O only;
  see `PROJECT.json` components.

What remains is either outside this tree (the callers of the mapping
counters, the Xtream writers, the user repository) or formatting and I/O
with no state to check. A property for a match or map block with no
cases (mapper.rs 467) waits on the intended meaning of such a script,
which neither the spec nor the tests state.
