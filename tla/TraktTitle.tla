------------------------------ MODULE TraktTitle ------------------------------
(***************************************************************************)
(* The title helpers of the Trakt client (src/utils/network/trakt.rs) that *)
(* the category matcher applies to every playlist and Trakt title before   *)
(* it scores them: normalize_title_for_matching and                        *)
(* extract_year_from_title.                                                *)
(*                                                                         *)
(* A string is a sequence of one-character strings.  A character outside  *)
(* ASCII is a longer token: "E'" stands for the letter E with an acute    *)
(* accent, which deunicode transliterates to "E".  Option<u32> is a       *)
(* sequence of at most one element.                                       *)
(***************************************************************************)
EXTENDS Integers, Sequences, SequencesExt

Upper == <<"A","B","C","D","E","F","G","H","I","J","K","L","M",
           "N","O","P","Q","R","S","T","U","V","W","X","Y","Z">>
Lower == <<"a","b","c","d","e","f","g","h","i","j","k","l","m",
           "n","o","p","q","r","s","t","u","v","w","x","y","z">>
Digits == <<"0","1","2","3","4","5","6","7","8","9">>

\* Whitespace as str::trim, split_whitespace and the regex class \s see it.
Ws == {" ", "\t"}

IsDigit(c) == c \in Range(Digits)
DigitVal(c) == SelectInSeq(Digits, LAMBDA d : d = c) - 1
DigitsVal(ds) == FoldLeft(LAMBDA acc, c : acc * 10 + DigitVal(c), 0, ds)

\* deunicode: ASCII stays, the accented letter loses its accent.
Deunicode(s) == [i \in DOMAIN s |-> IF s[i] = "E'" THEN "E" ELSE s[i]]

\* str::to_lowercase on the alphabet.
ToLower(s) ==
  [i \in DOMAIN s |-> LET k == SelectInSeq(Upper, LAMBDA u : u = s[i])
                      IN IF k = 0 THEN s[i] ELSE Lower[k]]

\* str::trim
Trim(s) ==
  LET first == SelectInSeq(s, LAMBDA c : c \notin Ws)
      last  == SelectLastInSeq(s, LAMBDA c : c \notin Ws)
  IN IF first = 0 THEN <<>> ELSE SubSeq(s, first, last)

\* str::split_whitespace: the maximal runs of non-whitespace, in order.
RECURSIVE Words(_)
Words(s) ==
  LET st == SelectInSeq(s, LAMBDA c : c \notin Ws)
  IN IF st = 0 THEN <<>>
     ELSE LET rest == SubSeq(s, st, Len(s))
              en   == SelectInSeq(rest, LAMBDA c : c \in Ws)
          IN IF en = 0 THEN <<rest>>
             ELSE <<SubSeq(rest, 1, en - 1)>> \o Words(SubSeq(rest, en, Len(rest)))

\* Vec::join(" ")
JoinWords(ws) ==
  IF ws = <<>> THEN <<>>
  ELSE FoldLeft(LAMBDA acc, w : acc \o <<" ">> \o w, ws[1], Tail(ws))

\* The characters normalize_regex [^a-z0-9\s] leaves in place.
Kept(c) == c \in Range(Lower) \cup Range(Digits) \cup Ws

\* normalize_title_for_matching (lines 183-196): trim, transliterate,
\* lowercase, delete every character but [a-z0-9] and whitespace, then
\* collapse the whitespace runs to single spaces.
NormalizeTitle(t) ==
  Trim(JoinWords(Words(SelectSeq(ToLower(Deunicode(Trim(t))), Kept))))

\* str::replace(pat, ""): every non-overlapping occurrence of pat, from
\* the left, deleted.
RECURSIVE DeleteAll(_, _)
DeleteAll(pat, t) ==
  IF Len(t) < Len(pat) THEN t
  ELSE IF SubSeq(t, 1, Len(pat)) = pat
       THEN DeleteAll(pat, SubSeq(t, Len(pat) + 1, Len(t)))
       ELSE <<Head(t)>> \o DeleteAll(pat, Tail(t))

ExtractYearExclusive(t) ==
  LET core == IF t # <<>> /\ Last(t) = ")" THEN Front(t) ELSE t
      ds   == SubSeq(core, Len(core) - 3, Len(core))
  IN IF /\ Len(core) >= 4
        /\ \A i \in DOMAIN ds : IsDigit(ds[i])
        /\ 1900 < DigitsVal(ds) /\ DigitsVal(ds) < 2100
     THEN [title |-> Trim(DeleteAll(<<" ">> \o ds,
                            DeleteAll(<<"(">> \o ds \o <<")">>, t))),
           year  |-> <<DigitsVal(ds)>>]
     ELSE [title |-> t, year |-> <<>>]

\* ExtractYearExclusive reads the range check as exclusive of its ends.
\* extract_year_from_title (lines 198-217).  The regex \(?(\d{4})\)?$
\* matches when the title ends in four digits, or in four digits and ")";
\* a year in 1900..2100 is kept, and every "(year)" and then every
\* " year" in the title is deleted before the trim.
ExtractYear(t) ==
  LET core == IF t # <<>> /\ Last(t) = ")" THEN Front(t) ELSE t
      ds   == SubSeq(core, Len(core) - 3, Len(core))
  IN IF /\ Len(core) >= 4
        /\ \A i \in DOMAIN ds : IsDigit(ds[i])
        /\ 1900 <= DigitsVal(ds) /\ DigitsVal(ds) <= 2100
     THEN [title |-> Trim(DeleteAll(<<" ">> \o ds,
                            DeleteAll(<<"(">> \o ds \o <<")">>, t))),
           year  |-> <<DigitsVal(ds)>>]
     ELSE [title |-> t, year |-> <<>>]
=============================================================================
