-------------------------------- MODULE MCLaws --------------------------------
(***************************************************************************)
(* Laws of the pure operators of six components, checked over bounded     *)
(* inputs: the MapperScript value algebra (MapperValue), the Web UI login  *)
(* (WebAuth), the year split of Trakt titles (TraktTitle), the mapping     *)
(* configuration prepare (MappingConfig), the IP check prepare (IpCheck)   *)
(* and the Xtream info helpers (XtreamInfo).  A state is one input,        *)
(* tagged with the law it is for, and Next leaves it alone, so every law   *)
(* is an invariant over every input.                                       *)
(***************************************************************************)
EXTENDS MapperValue

CONSTANTS None, ReadError

\* A line that fails to decode; its one token is no character of a line.
MCReadError == <<"<invalid utf-8>">>

VARIABLE input

TT == INSTANCE TraktTitle
WA == INSTANCE WebAuth WITH ConfigPath <- "cfg", DefaultUserFile <- "cfg/user.txt"
MC == INSTANCE MappingConfig WITH BadFilters <- {"bad"}, BadScripts <- {"bad"},
                                  BadTemplates <- {"bad"}
IC == INSTANCE IpCheck WITH BadPatterns <- {"bad"}
XI == INSTANCE XtreamInfo

-----------------------------------------------------------------------------
(* Value algebra: two EvalResults and one numeric map case key.  The       *)
(* numbers sit on and next to the epsilon boundaries (units of 1/Scale:    *)
(* 10 = 1e-3).                                                            *)
MCNums == {-20010, -10, -5, 0, 5, 9, 10, 11, 5000, 29991, 89995, 90000, 90005, 90010}

MCStrs == {<<"9">>, <<"9", ".", "0", "0", "0", "5">>, <<"-", "0", ".", "0", "0", "1">>,
           <<"a">>, <<"1", ".">>, <<>>}

Vals == {Number(n) : n \in MCNums} \cup {Value(s) : s \in MCStrs}
        \cup {Undefined, AnyValue, Failure("x"), Named(<<<<<<"1">>, <<"9">>>>>>)}

\* The numeric keys of `map n { 0..9 => .., 9.0005.. => .., ..0 => .., 9 => .. }`.
RangeKeys == {[k |-> "Full", from |-> 0, to |-> 90000], [k |-> "From", from |-> 90005],
              [k |-> "To", to |-> 0], [k |-> "Eq", n |-> 90000]}

ValueInputs == [law : {"value"}, a : Vals, b : Vals, key : RangeKeys]

(* User files: lines with and without ':', with blanks, a second ':',     *)
(* an empty username, names that differ in case, and an unreadable line;  *)
(* the file is found in the working directory, in the configuration       *)
(* directory, in both (the other one holding OtherFile), nowhere, or it   *)
(* cannot be opened.                                                      *)
UserLines == { <<"a", ":", "a">>, <<"A", ":">>, <<" ", "a", ":", "A", " ">>, <<"a">>,
               <<"a", ":", "A", ":", "a">>, <<":", "a">>, ReadError }

OtherFile == << <<"a", ":", "a", "a">> >>

LoginInputs == [law : {"login"}, file : BoundedSeq(UserLines, 3),
                name : {<<"a">>, <<"A">>, <<>>},
                placement : {"cwd", "cfgdir", "both", "none", "unopenable"}]

(* Trakt titles: a base, then a four-digit number as " (y)", "(y)", " y"  *)
(* or glued to the base, with years on both sides of 1900 and 2100.       *)
YearInputs == [law : {"year"}, base : {<<>>, <<"a">>, <<"a", " ">>, <<" ", "A", " ", "a">>},
               y : {1899, 1900, 2000, 2100, 2101},
               form : {"space_paren", "paren", "space", "glued"}]

(* Mapping definitions as read from the file (every t_ field None): the  *)
(* templates absent, accepted or rejected, and up to two mappings, with   *)
(* ids a or b, each with no mapper list or up to two mappers whose filter *)
(* or script may fail, and no counter list or one counter whose field may *)
(* not be a counter field ("group") or whose filter may fail.            *)
Mapper(f, sc) == [filter |-> f, script |-> sc, t_filter |-> None, t_script |-> None]

Mappers == {Mapper("f", "s"), Mapper("bad", "s"), Mapper("f", "bad")}

Counters == {[filter |-> "f", field |-> "name", value |-> 1],
             [filter |-> "f", field |-> "group", value |-> 1],
             [filter |-> "bad", field |-> "chno", value |-> 1]}

Mappings == [id : {"a", "b"}, mapper : {None} \cup BoundedSeq(Mappers, 2),
             counter : {None} \cup BoundedSeq(Counters, 1), t_counter : {None},
             templates : {None}]

MappingInputs == [law : {"mapping"},
                  def : [templates : {None, "t", "bad"}, mapping : BoundedSeq(Mappings, 2)]]

(* IP check configs: each URL absent, empty, blank, padded or plain, each  *)
(* pattern absent, valid or invalid.                                      *)
Urls == {None, <<>>, <<" ">>, <<" ", "a">>, <<"a">>}

IpInputs == [law : {"ipcheck"},
             cfg : [url : Urls, url_ipv4 : Urls, url_ipv6 : Urls,
                    pattern_ipv4 : {None, "p", "bad"}, pattern_ipv6 : {None, "p", "bad"},
                    t_pattern_ipv4 : {None}, t_pattern_ipv6 : {None}]]

(* Xtream info: stored records for ids 1 and 2 with timestamps 0 and 5, a *)
(* storage path or record file that fails, items with or without an id   *)
(* and timestamp, and the info URL, fetch and delay of one download.     *)
XtreamInputs == [law : {"xtream"},
                 storage : [path_ok : BOOLEAN, load_ok : BOOLEAN,
                            records : UNION {[D -> {0, 5}] : D \in SUBSET {1, 2}}],
                 item : [provider_id : {None, 1, 2}, last_modified : {None, 0, 5}],
                 has_url : BOOLEAN, fetch_ok : BOOLEAN, delay : {0, 1}]

Init == input \in ValueInputs \cup LoginInputs \cup YearInputs \cup MappingInputs
                  \cup IpInputs \cup XtreamInputs

\* The input is fixed; every law is a property of the one state.
Next == UNCHANGED input

Spec == Init /\ [][Next]_input

-----------------------------------------------------------------------------
(* Helpers of the laws                                                     *)

\* The file system of a login input: the configured user file "users".
UserFs ==
    LET cwd == "users"
        dir == "cfg/users"
    IN  [exists     |-> CASE input.placement \in {"cwd", "unopenable"} -> {cwd}
                           [] input.placement = "cfgdir"               -> {dir}
                           [] input.placement = "both"                 -> {cwd, dir}
                           [] OTHER                                    -> {},
         unopenable |-> IF input.placement = "unopenable" THEN {cwd} ELSE {},
         lines      |-> [p \in {cwd, dir} |->
                           IF p = dir /\ input.placement = "both" THEN OtherFile
                           ELSE input.file]]

\* The password the file gives a user, read off the file: the trimmed text
\* between the first and second ':' of the first line, before any
\* unreadable line, whose trimmed text before the first ':' equals the name
\* ignoring ASCII case.
FilePassword(f, name) ==
    LET Colons(j) == {p \in DOMAIN f[j] : f[j][p] = ":"}
        User(j)   == Trim(SubSeq(f[j], 1, Min(Colons(j)) - 1))
        Pass(j)   == LET c    == Min(Colons(j))
                         more == {p \in Colons(j) : p > c}
                     IN  Trim(SubSeq(f[j], c + 1, IF more = {} THEN Len(f[j]) ELSE Min(more) - 1))
        M == {j \in DOMAIN f : /\ \A i \in 1..j : f[i] # ReadError
                               /\ Colons(j) # {}
                               /\ ToLower(User(j)) = ToLower(name)}
    IN  IF M = {} THEN None ELSE Pass(Min(M))

\* The four digits of a year.
YearDigits(y) == [k \in 1..4 |-> TT!Digits[((y \div 10^(4 - k)) % 10) + 1]]

YearTitle ==
    LET d == YearDigits(input.y)
    IN  input.base \o CASE input.form = "space_paren" -> <<" ", "(">> \o d \o <<")">>
                        [] input.form = "paren"       -> <<"(">> \o d \o <<")">>
                        [] input.form = "space"       -> <<" ">> \o d
                        [] input.form = "glued"       -> d

-----------------------------------------------------------------------------
(* A number that a script turns into text (format_number, through concat *)
(* or a template) still compares Equal to, and matches, the number itself *)
(* when the text is compared back with it (cmp_number parses the text   *)
(* and compare_number applies its strict 1e-3 tolerance): the fraction   *)
(* format_number drops must stay below the tolerance compare_number       *)
(* allows.                                                                *)
TextRoundTripEqual ==
  input.law = "value" /\ input.a.k = "Number" =>
    LET t == Value(FormatNumber(input.a.n))
    IN  /\ Compare(t, input.a) = "Equal"
        /\ Matches(t, input.a)

(* EvalResult::compare is antisymmetric across the variants, also when a  *)
(* text is compared with a number (the Value/Number arm inverts the       *)
(* Number/Value one), and EvalResult::matches holds exactly when compare  *)
(* says Equal, so a match case and a map range agree on equality.         *)
CompareConsistent ==
  input.law = "value" =>
    LET a == input.a
        b == input.b
    IN  /\ Compare(a, b) = Invert(Compare(b, a))
        /\ Matches(a, b) <=> Compare(a, b) = "Equal"

(* A numeric map case key matches the open interval that extends its      *)
(* bounds by epsilon on both sides (compare_number's tolerance): `0..9`   *)
(* takes numbers below 9.001, so it overlaps `9.0005..`.                  *)
RangeKeyTolerance ==
  input.law = "value" /\ input.a.k = "Number" =>
    LET a == input.a
        key == input.key
    IN (MapCaseKeyMatches(a, key) <=>
         CASE key.k = "From" -> a.n > key.from - Epsilon
           [] key.k = "To"   -> a.n < key.to + Epsilon
           [] key.k = "Full" -> key.from - Epsilon < a.n /\ a.n < key.to + Epsilon
           [] key.k = "Eq"   -> key.n - Epsilon < a.n /\ a.n < key.n + Epsilon)

(* A Web UI login after WebAuthConfig::prepare gets, from                 *)
(* get_user_password, exactly the password of the first well-formed line  *)
(* naming the user (ignoring ASCII case) that comes before any unreadable *)
(* line of the user file, the file found in the working directory before  *)
(* the configuration directory; and no password when prepare failed.      *)
(* Users after an unreadable line, and later lines of a name that differs *)
(* only in case, can never log in.                                        *)
WebLoginMatchesFile ==
  input.law = "login" =>
    LET cfg0 == [userfile |-> "users", t_users |-> None]
        r    == WA!Prepare(cfg0, UserFs)
        read == input.placement \in {"cwd", "cfgdir", "both"}
    IN  /\ r.ok <=> read
        /\ WA!GetUserPassword(r.cfg, input.name)
              = IF read THEN FilePassword(input.file, input.name) ELSE None

(* extract_year_from_title splits off a trailing year exactly when it is   *)
(* in 1900..=2100; the cleaned title is then the base, trimmed, for " (y)", *)
(* "(y)" and " y", while a year glued to a word (or standing alone) is    *)
(* reported but stays in the title; a year out of range leaves the title  *)
(* whole.                                                                 *)
YearSuffixSplit ==
  input.law = "year" =>
    LET t     == YearTitle
        glued == input.form = "glued" /\ (input.base = <<>> \/ Last(input.base) # " ")
    IN  TT!ExtractYear(t) =
          IF 1900 <= input.y /\ input.y <= 2100
          THEN [title |-> IF glued THEN TT!Trim(t) ELSE TT!Trim(input.base),
                year  |-> <<input.y>>]
          ELSE [title |-> t, year |-> <<>>]

(* MappingDefinition::prepare stops at the first error and leaves what it *)
(* did: it fails exactly when the templates or some mapper filter, script, *)
(* counter field or counter filter is rejected; a rejected template list  *)
(* changes nothing; otherwise the mappings before the first failing one   *)
(* are fully prepared, the failing one has its templates, the mappers     *)
(* before its first failing mapper prepared, that mapper its filter if    *)
(* the filter compiled, and no counters, and the mappings after it are    *)
(* as read.  After a success get_mapping finds the first mapping of an id. *)
PrepareStopsAtFirstError ==
  input.law = "mapping" =>
    LET d       == input.def
        r       == MC!DefinitionPrepare(d)
        Items(x) == IF x = None THEN <<>> ELSE x
        MapperBad(mp) == mp.filter = "bad" \/ mp.script = "bad"
        CounterBad(c) == c.field \notin {"name", "title", "caption", "chno"} \/ c.filter = "bad"
        Bad(m)  == (\E mp \in Range(Items(m.mapper)) : MapperBad(mp))
                   \/ (\E c \in Range(Items(m.counter)) : CounterBad(c))
        FirstOr(S, n) == IF S = {} THEN n ELSE Min(S)
        n0      == FirstOr({n \in DOMAIN d.mapping : Bad(d.mapping[n])}, Len(d.mapping) + 1)
        tbad    == d.templates = "bad"
        T       == IF d.templates = None THEN None ELSE [list |-> d.templates, prepared |-> TRUE]
        Full(mp) == [mp EXCEPT !.t_filter = mp.filter, !.t_script = mp.script]
        Expected(n) ==
          LET m  == d.mapping[n]
              ms == Items(m.mapper)
              k0 == FirstOr({k \in DOMAIN ms : MapperBad(ms[k])}, Len(ms) + 1)
              Out(k) == CASE k < k0 -> Full(ms[k])
                          [] k = k0 /\ ms[k].filter # "bad" -> [ms[k] EXCEPT !.t_filter = ms[k].filter]
                          [] OTHER -> ms[k]
          IN  IF n > n0 THEN m
              ELSE [m EXCEPT !.templates = T,
                             !.mapper = IF m.mapper = None THEN None ELSE [k \in DOMAIN ms |-> Out(k)],
                             !.t_counter =
                                IF n < n0 /\ m.counter # None
                                THEN [j \in DOMAIN m.counter |->
                                        [filter |-> m.counter[j].filter, field |-> m.counter[j].field,
                                         value |-> m.counter[j].value]]
                                ELSE None]
    IN  /\ r.ok <=> ~tbad /\ n0 > Len(d.mapping)
        /\ tbad => r.out = d
        /\ ~tbad => r.out = [templates |-> T, mapping |-> [n \in DOMAIN d.mapping |-> Expected(n)]]
        /\ r.ok => \A id \in {"a", "b"} :
                     LET first == {n \in DOMAIN d.mapping : d.mapping[n].id = id}
                     IN  MC!GetMapping(r.out, id) = IF first = {} THEN None ELSE Expected(Min(first))

(* IpCheckConfig::prepare accepts exactly the configs with a URL that is  *)
(* not blank and with valid patterns; every URL comes out trimmed, or None *)
(* when blank, also when prepare fails; and a config it accepted is       *)
(* accepted again unchanged when prepared a second time.                  *)
IpCheckPrepareNormalForm ==
  input.law = "ipcheck" =>
    LET c  == input.cfg
        r  == IC!Prepare(c)
        Blank(u) == \A i \in DOMAIN u : u[i] = " "
    IN  /\ r.ok <=> /\ \E f \in IC!UrlFields : c[f] # None /\ ~Blank(c[f])
                    /\ c.pattern_ipv4 # "bad" /\ c.pattern_ipv6 # "bad"
        /\ \A f \in IC!UrlFields :
              r.cfg[f] = IF c[f] = None \/ Blank(c[f]) THEN None ELSE Trim(c[f])
        /\ r.ok => IC!Prepare(r.cfg) = r

(* An Xtream item is resolved again exactly when it has a provider id and *)
(* no readable stored record holds its timestamp: an item without a       *)
(* timestamp is fetched on every run, and a record file that fails to     *)
(* load makes every item look new without any error being reported (only *)
(* a missing storage path is); an item without a provider id is neither   *)
(* fetched nor delayed.                                                   *)
XtreamInfoResolve ==
  input.law = "xtream" =>
    LET s  == input.storage
        it == input.item
        p  == XI!ReadProcessedInfoIds(s)
        u  == XI!ShouldUpdateInfo(it, p.ids)
        dl == XI!ResolveDownload(it, input.has_url, input.fetch_ok, input.delay)
        stored == s.path_ok /\ s.load_ok /\ it.provider_id \in DOMAIN s.records
    IN  /\ u[1] <=> it.provider_id # None
                    /\ ~(stored /\ it.last_modified = s.records[it.provider_id])
        /\ Len(p.errors) = IF s.path_ok THEN 0 ELSE 1
        /\ dl.slept = IF it.provider_id = None THEN 0 ELSE input.delay
        /\ (dl.result # None) <=> it.provider_id # None /\ input.has_url /\ input.fetch_ok
=============================================================================
