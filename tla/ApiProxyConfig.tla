--------------------------- MODULE ApiProxyConfig ---------------------------
(***************************************************************************)
(* ApiProxyConfig::prepare (backend/src/model/config/api_proxy.rs; the    *)
(* same code is ApiProxyConfigDto::prepare in shared/src/model/config/    *)
(* api_proxy.rs) and the credential lookups the proxy serves requests     *)
(* with: get_target_name (username and password) and                      *)
(* get_target_name_by_token.                                              *)
(*                                                                         *)
(* Texts are sequences of one-character strings, trimmed of spaces as     *)
(* str::trim does (MapperValue!Trim). A server is its name, protocol,     *)
(* host and port; timezone, message and path are only normalised by      *)
(* prepare and never make it fail, and are left out. Error messages are   *)
(* tags.                                                                  *)
(***************************************************************************)
EXTENDS Integers, Sequences, SequencesExt

CONSTANTS
    Configs,   \* the ApiProxyConfig values the config file may hold
    None       \* Option::None

VARIABLES
    config,    \* the ApiProxyConfig
    loaded,    \* ghost: the config as read, before prepare
    phase,     \* "loaded", then "prepared"
    ok         \* prepare returned Ok

vars == <<config, loaded, phase, ok>>

MV == INSTANCE MapperValue

Trim(t) == MV!Trim(t)

(* port.parse::<u16>() over the alphabet: digits only, at most 65535.     *)
IsU16(t) == t # <<>> /\ \A n \in DOMAIN t : MV!IsDigit(t[n]) /\ MV!DigitsVal(t) <= 65535

-----------------------------------------------------------------------------
ServerPrepareKeepBlankPort(s) ==
    LET n == Trim(s.name)
        p == Trim(s.protocol)
        h == Trim(s.host)
        t == IF s.port = None THEN None ELSE Trim(s.port)
    IN  CASE n = <<>> -> [srv |-> [s EXCEPT !.name = n], err |-> TRUE]
          [] p = <<>> -> [srv |-> [s EXCEPT !.name = n, !.protocol = p], err |-> TRUE]
          [] h = <<>> -> [srv |-> [s EXCEPT !.name = n, !.protocol = p, !.host = h],
                          err |-> TRUE]
          [] t # None /\ t # <<>> /\ ~IsU16(t) ->
                [srv |-> [s EXCEPT !.name = n, !.protocol = p, !.host = h], err |-> TRUE]
          [] OTHER -> [srv |-> [name |-> n, protocol |-> p, host |-> h, port |-> t],
                       err |-> FALSE]

(* ApiProxyServerInfo::prepare: trims name, protocol and host in turn,    *)
(* failing at the first that is empty; a blank port becomes None, a port  *)
(* that is not a u16 fails. Fields after the failing check stay as read.  *)
(* ServerPrepareKeepBlankPort keeps a blank port as Some("").             *)
ServerPrepare(s) ==
    LET n == Trim(s.name)
        p == Trim(s.protocol)
        h == Trim(s.host)
        t == IF s.port = None THEN None ELSE Trim(s.port)
    IN  CASE n = <<>> -> [srv |-> [s EXCEPT !.name = n], err |-> TRUE]
          [] p = <<>> -> [srv |-> [s EXCEPT !.name = n, !.protocol = p], err |-> TRUE]
          [] h = <<>> -> [srv |-> [s EXCEPT !.name = n, !.protocol = p, !.host = h],
                          err |-> TRUE]
          [] t # None /\ t # <<>> /\ ~IsU16(t) ->
                [srv |-> [s EXCEPT !.name = n, !.protocol = p, !.host = h], err |-> TRUE]
          [] OTHER -> [srv |-> [name |-> n, protocol |-> p, host |-> h,
                                port |-> IF t = <<>> THEN None ELSE t],
                       err |-> FALSE]

(* One iteration of prepare_server_config: the server's own error, then   *)
(* the uniqueness of its (trimmed) name.                                  *)
PrepareServer(acc, s) ==
    LET r == ServerPrepare(s)
    IN  [names  |-> acc.names \cup {r.srv.name},
         errors |-> acc.errors \o (IF r.err THEN <<"server">> ELSE <<>>)
                               \o (IF r.srv.name \in acc.names
                                   THEN <<"non-unique server name">> ELSE <<>>),
         out    |-> Append(acc.out, r.srv)]

PrepareServerConfig(servers) ==
    FoldLeft(PrepareServer, [names |-> {}, errors |-> <<>>, out |-> <<>>], servers)

(* ProxyUserCredentials::prepare (trim): username, password and token.    *)
CredentialPrepare(c) ==
    [c EXCEPT !.username = Trim(c.username),
              !.password = Trim(c.password),
              !.token = IF c.token = None THEN None ELSE Trim(c.token)]

PrepareCredentialKeepBlank(servers, acc, c0) ==
    LET c == CredentialPrepare(c0)
        blank == c.token # None /\ c.token = <<>>
    IN  [usernames |-> acc.usernames \cup {c.username},
         tokens    |-> IF c.token = None \/ blank THEN acc.tokens
                       ELSE acc.tokens \cup {c.token},
         errors    |-> acc.errors
                       \o (IF c.username \in acc.usernames
                           THEN <<"non-unique username">> ELSE <<>>)
                       \o (IF ~blank /\ c.token # None /\ c.token \in acc.tokens
                           THEN <<"non-unique token">> ELSE <<>>)
                       \o (IF c.server # None /\ \A n \in DOMAIN servers : servers[n].name # c.server
                           THEN <<"no server info">> ELSE <<>>),
         out       |-> Append(acc.out, c)]

PrepareCredentialRawBlank(servers, acc, c0) ==
    LET c == CredentialPrepare(c0)
        blank == c0.token # None /\ c0.token = <<>>
        c2 == IF blank THEN [c EXCEPT !.token = None] ELSE c
    IN  [usernames |-> acc.usernames \cup {c.username},
         tokens    |-> IF c.token = None \/ blank THEN acc.tokens
                       ELSE acc.tokens \cup {c.token},
         errors    |-> acc.errors
                       \o (IF c.username \in acc.usernames
                           THEN <<"non-unique username">> ELSE <<>>)
                       \o (IF ~blank /\ c.token # None /\ c.token \in acc.tokens
                           THEN <<"non-unique token">> ELSE <<>>)
                       \o (IF c.server # None /\ \A n \in DOMAIN servers : servers[n].name # c.server
                           THEN <<"no server info">> ELSE <<>>),
         out       |-> Append(acc.out, c2)]

PrepareCredentialTokenOrder(servers, acc, c0) ==
    LET c == CredentialPrepare(c0)
        blank == c.token # None /\ c.token = <<>>
        c2 == IF blank THEN [c EXCEPT !.token = None] ELSE c
    IN  [usernames |-> acc.usernames \cup {c.username},
         tokens    |-> IF c.token = None THEN acc.tokens ELSE acc.tokens \cup {c.token},
         errors    |-> acc.errors
                       \o (IF c.username \in acc.usernames
                           THEN <<"non-unique username">> ELSE <<>>)
                       \o (IF c.token # None /\ c.token \in acc.tokens
                           THEN <<"non-unique token">> ELSE <<>>)
                       \o (IF c.server # None /\ \A n \in DOMAIN servers : servers[n].name # c.server
                           THEN <<"no server info">> ELSE <<>>),
         out       |-> Append(acc.out, c2)]

(* One credential of prepare_target_user: trim; a username seen before is *)
(* an error; a blank token becomes None, a token seen before is an error; *)
(* a server name no (prepared) server info has is an error.               *)
(* PrepareCredentialKeepBlank leaves a blank token as Some("");          *)
(* PrepareCredentialTokenOrder checks tokens for uniqueness before blank  *)
(* ones are dropped; PrepareCredentialRawBlank asks whether the token is  *)
(* empty before it is trimmed.                                            *)
PrepareCredential(servers, acc, c0) ==
    LET c == CredentialPrepare(c0)
        blank == c.token # None /\ c.token = <<>>
        c2 == IF blank THEN [c EXCEPT !.token = None] ELSE c
    IN  [usernames |-> acc.usernames \cup {c.username},
         tokens    |-> IF c.token = None \/ blank THEN acc.tokens
                       ELSE acc.tokens \cup {c.token},
         errors    |-> acc.errors
                       \o (IF c.username \in acc.usernames
                           THEN <<"non-unique username">> ELSE <<>>)
                       \o (IF ~blank /\ c.token # None /\ c.token \in acc.tokens
                           THEN <<"non-unique token">> ELSE <<>>)
                       \o (IF c.server # None /\ \A n \in DOMAIN servers : servers[n].name # c.server
                           THEN <<"no server info">> ELSE <<>>),
         out       |-> Append(acc.out, c2)]

(* prepare_target_user: the credential loop over every target, with one   *)
(* set of usernames and one of tokens for the whole config.               *)
PrepareTargetUser(servers, users) ==
    LET step(acc, tu) ==
          LET r == FoldLeft(LAMBDA a, c : PrepareCredential(servers, a, c),
                            [acc EXCEPT !.out = <<>>], tu.credentials)
          IN  [r EXCEPT !.out = Append(acc.out, [tu EXCEPT !.credentials = r.out])]
    IN  FoldLeft(step, [usernames |-> {}, tokens |-> {}, errors |-> <<>>, out |-> <<>>],
                 users)

(* ApiProxyConfig::prepare: the prepared config and whether the errors    *)
(* vector stayed empty.                                                   *)
PrepareConfig(cfg) ==
    LET sv == IF cfg.server = <<>>
              THEN [errors |-> <<"no server info defined">>, out |-> <<>>]
              ELSE PrepareServerConfig(cfg.server)
        us == PrepareTargetUser(sv.out, cfg.user)
    IN  [config |-> [server |-> sv.out, user |-> us.out],
         ok     |-> sv.errors \o us.errors = <<>>]

Prepare ==
    /\ phase = "loaded"
    /\ config' = PrepareConfig(config).config
    /\ ok' = PrepareConfig(config).ok
    /\ phase' = "prepared"
    /\ UNCHANGED loaded

-----------------------------------------------------------------------------
(* TargetUser::get_target_name and ApiProxyConfig::get_target_name: the   *)
(* first credential, target by target, with that username and password.  *)
GetTargetName(username, password) ==
    LET hits == SelectSeq(FlattenSeq([n \in DOMAIN config.user |->
                   [k \in DOMAIN config.user[n].credentials |->
                      <<config.user[n].credentials[k], config.user[n].target>>]]),
                 LAMBDA h : h[1].username = username /\ h[1].password = password)
    IN  IF hits = <<>> THEN None ELSE hits[1]

(* get_target_name_by_token: the first credential whose token is Some     *)
(* and equal.                                                             *)
GetTargetNameByToken(token) ==
    LET hits == SelectSeq(FlattenSeq([n \in DOMAIN config.user |->
                   [k \in DOMAIN config.user[n].credentials |->
                      <<config.user[n].credentials[k], config.user[n].target>>]]),
                 LAMBDA h : h[1].token # None /\ h[1].token = token)
    IN  IF hits = <<>> THEN None ELSE hits[1]

(* The prepared config is in use: lookups do not change it.              *)
Serve ==
    /\ phase = "prepared"
    /\ UNCHANGED vars

Init ==
    /\ config \in Configs
    /\ loaded = config
    /\ phase = "loaded"
    /\ ok = FALSE

Next == Prepare \/ Serve

Spec == Init /\ [][Next]_vars

-----------------------------------------------------------------------------
TypeOK ==
    /\ phase \in {"loaded", "prepared"}
    /\ ok \in BOOLEAN
    /\ \A n \in DOMAIN config.server :
          config.server[n].port = None \/ config.server[n].port \in Seq(MV!Chars) \ {<<>>}
    /\ \A n \in DOMAIN config.user : \A c \in Range(config.user[n].credentials) :
          c.token = None \/ c.token \in Seq(MV!Chars)

Creds(cfg) == UNION {Range(cfg.user[n].credentials) : n \in DOMAIN cfg.user}

(* What the configuration rules say, stated on the config as read: at     *)
(* least one server; every server has a name, protocol and host and a     *)
(* u16 or blank port; trimmed server names, trimmed usernames and         *)
(* non-blank trimmed tokens are unique across the whole config; and every *)
(* credential's server names a server.                                    *)
ValidConfig(cfg) ==
    LET S == cfg.server
        U == FlattenSeq([n \in DOMAIN cfg.user |-> cfg.user[n].credentials])
        Tok(c) == IF c.token = None THEN <<>> ELSE Trim(c.token)
    IN  /\ S # <<>>
        /\ \A n \in DOMAIN S : ~ServerPrepare(S[n]).err
        /\ \A a, b \in DOMAIN S : a # b => Trim(S[a].name) # Trim(S[b].name)
        /\ \A a, b \in DOMAIN U : a # b =>
              /\ Trim(U[a].username) # Trim(U[b].username)
              /\ Tok(U[a]) # <<>> => Tok(U[a]) # Tok(U[b])
        /\ \A a \in DOMAIN U : U[a].server # None =>
              \E n \in DOMAIN S : Trim(S[n].name) = U[a].server

(* prepare returns Ok exactly for the configs that satisfy the rules: the *)
(* checks of prepare_server_config and prepare_target_user, made on       *)
(* values trimmed one by one while the loops run, neither miss a          *)
(* violation nor reject a valid config.                                   *)
PrepareAcceptsExactlyValid ==
    phase = "prepared" => (ok <=> ValidConfig(loaded))

(* After a successful prepare, every configured credential is the one     *)
(* get_target_name finds for its own username and password, and the one   *)
(* get_target_name_by_token finds for its token: no other credential,     *)
(* earlier in another target, shadows it.                                 *)
LookupFindsOwnCredential ==
    phase = "prepared" /\ ok =>
      \A n \in DOMAIN config.user : \A c \in Range(config.user[n].credentials) :
         /\ GetTargetName(c.username, c.password) = <<c, config.user[n].target>>
         /\ c.token # None => GetTargetNameByToken(c.token) = <<c, config.user[n].target>>

(* A prepared config is a fixed point of prepare: once prepare returned    *)
(* Ok, preparing the result again (as when the config is saved and read   *)
(* back) returns Ok and changes nothing; every trim, the blank-port and   *)
(* blank-token normalisation and the uniqueness checks agree with what    *)
(* they produced.                                                         *)
PrepareIdempotent ==
    phase = "prepared" /\ ok => PrepareConfig(config) = [config |-> config, ok |-> TRUE]

=============================================================================
