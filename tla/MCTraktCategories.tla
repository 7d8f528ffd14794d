-------------------------- MODULE MCTraktCategories --------------------------
(* A playlist of four channels and three Trakt list configs, two of which *)
(* share the key "u:a" (so the second is served from the cache, refetched *)
(* after six hours, or meets a clock that went back).                     *)
EXTENDS TraktCategories

Title(n, y) == [name |-> n, suffix |-> y]

MCPlaylist ==
    << [cluster |-> "video",  props |-> [tmdb |-> "t1", tmdb_id |-> "absent"],
        title |-> Title("matrix", 1999)],
       [cluster |-> "series", props |-> [tmdb |-> "absent", tmdb_id |-> "t1"],
        title |-> Title("show", None)],
       [cluster |-> "video",  props |-> [tmdb |-> "bad", tmdb_id |-> "t2"],
        title |-> Title("matrix", 2200)],
       [cluster |-> "live",   props |-> None, title |-> Title("show", None)] >>

Item(id, ty, r, t) == [tmdb |-> id, ctype |-> ty, rank |-> r, title |-> t]

MCTraktData ==
    [k \in {"u:a", "u:b"} |->
        IF k = "u:a"
        THEN << Item("t1", "vod", 2, Title("matrix", 1999)),
                Item("t1", "series", None, Title("show", None)),
                Item(None, "vod", 1, Title("matrx", 2000)) >>
        ELSE << Item("t2", "series", 1, Title("show", None)),
                Item(None, "series", 1, Title("show", None)) >>]

MCLists ==
    << [user |-> "u", slug |-> "a", ctype |-> "both",   threshold |-> 70],
       [user |-> "u", slug |-> "a", ctype |-> "vod",    threshold |-> 100],
       [user |-> "u", slug |-> "b", ctype |-> "series", threshold |-> 0] >>

Similar == {"matrix", "matrx"}

MCTitleSim(a, b) ==
    CASE a = b                       -> 1000
      [] a.name = b.name             -> 900
      [] {a.name, b.name} = Similar  -> 850
      [] OTHER                       -> 300

MCPhoneticSim(a, b) ==
    IF a.name = b.name \/ {a.name, b.name} = Similar THEN 1000 ELSE 200

MCTimes == {0, 21599, 21600}
==============================================================================
