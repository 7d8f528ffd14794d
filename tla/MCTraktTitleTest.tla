-------------------------- MODULE MCTraktTitleTest --------------------------
(* The cases of test_normalize_title (src/utils/network/trakt.rs 224-228): *)
(* each is an input title and the normalized title the test asserts.      *)
EXTENDS TraktTitle

VARIABLE case

TestCases ==
  {<<<<"T", "h", "e", " ", "M", "a", "t", "r", "i", "x">>,
       <<"t", "h", "e", " ", "m", "a", "t", "r", "i", "x">>>>,
     <<<<"S", "p", "i", "d", "e", "r", "-", "M", "a", "n", ":", " ", "N", "o", " ", "W", "a", "y", " ", "H", "o", "m", "e">>,
       <<"s", "p", "i", "d", "e", "r", " ", "m", "a", "n", " ", "n", "o", " ", "w", "a", "y", " ", "h", "o", "m", "e">>>>,
     <<<<"E'", "l", "i", "t", "e">>, <<"e", "l", "i", "t", "e">>>>}

Init == case \in TestCases

Next == UNCHANGED case

Spec == Init /\ [][Next]_case

(* test_normalize_title: normalize_title_for_matching turns each test     *)
(* title into the string the test asserts; "Spider-Man: No Way Home"     *)
(* must become "spider man no way home".                                 *)
NormalizeTitleTest == NormalizeTitle(case[1]) = case[2]
=============================================================================
