-------------------------------- MODULE IpCheck --------------------------------
(***************************************************************************)
(* IpCheckConfig::prepare (backend/src/model/config/ip_check.rs): the     *)
(* three URLs are trimmed and a blank one becomes None, at least one URL  *)
(* must remain, and the two optional patterns are compiled, IPv4 first.   *)
(* A URL is a sequence of one-character strings (MapperValue's alphabet); *)
(* a pattern is a text, and Regex::new fails exactly on BadPatterns; a    *)
(* compiled regex is its pattern.                                         *)
(***************************************************************************)
EXTENDS Integers, Sequences, SequencesExt

CONSTANTS
    None,          \* Option::None
    BadPatterns    \* patterns Regex::new rejects

MV == INSTANCE MapperValue

UrlFields == {"url", "url_ipv4", "url_ipv6"}

(* PrepareUrlKeepBlank trims but keeps a blank URL as Some("").          *)
PrepareUrlKeepBlank(u) == IF u = None THEN None ELSE MV!Trim(u)

(* One `if let Some(url)` block: trimmed, and None when that is empty.    *)
PrepareUrl(u) ==
    IF u = None \/ MV!Trim(u) = <<>> THEN None ELSE MV!Trim(u)

\* t_pattern_* = Some(Regex::new(p)?) when a pattern is set; else unchanged.
Compiled(t, p) == IF p = None THEN t ELSE p

(* IpCheckConfig::prepare: the URLs are normalised before the "No url     *)
(* provided!" check, so they stay normalised on that error; a bad IPv6    *)
(* pattern fails after the IPv4 regex has been stored.                    *)
Prepare(c) ==
    LET c1 == [c EXCEPT !.url      = PrepareUrl(c.url),
                        !.url_ipv4 = PrepareUrl(c.url_ipv4),
                        !.url_ipv6 = PrepareUrl(c.url_ipv6)]
        c2 == [c1 EXCEPT !.t_pattern_ipv4 = Compiled(c.t_pattern_ipv4, c.pattern_ipv4)]
        c3 == [c2 EXCEPT !.t_pattern_ipv6 = Compiled(c.t_pattern_ipv6, c.pattern_ipv6)]
    IN  CASE \A f \in UrlFields : c1[f] = None      -> [cfg |-> c1, ok |-> FALSE]
          [] c.pattern_ipv4 \in BadPatterns         -> [cfg |-> c1, ok |-> FALSE]
          [] c.pattern_ipv6 \in BadPatterns         -> [cfg |-> c2, ok |-> FALSE]
          [] OTHER                                  -> [cfg |-> c3, ok |-> TRUE]
=============================================================================
