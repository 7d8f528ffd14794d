------------------------------- MODULE WebAuth -------------------------------
(***************************************************************************)
(* The Web UI login configuration (backend/src/model/config/web_auth.rs):  *)
(* WebAuthConfig::prepare, which finds the user file and reads it line by  *)
(* line as username:password, and get_user_password, the lookup a login   *)
(* makes.                                                                  *)
(*                                                                         *)
(* A line is a sequence of one-character strings over MapperValue's       *)
(* alphabet; ReadError stands for a line the reader cannot decode (not    *)
(* UTF-8, or an I/O error).  The file system is a record: the paths that  *)
(* exist, the ones that cannot be opened, and each path's lines.  Paths   *)
(* are strings; Join is PathBuf::join of a relative name.                 *)
(***************************************************************************)
EXTENDS Integers, Sequences, SequencesExt

CONSTANTS
    None,             \* Option::None
    ReadError,        \* a line for which lines() yields Err
    ConfigPath,       \* the configuration directory
    DefaultUserFile   \* get_default_user_file_path(config_path)

MV == INSTANCE MapperValue

Join(dir, name) == dir \o "/" \o name

-----------------------------------------------------------------------------
(* reader.lines().map_while(Result::ok): the lines before the first one   *)
(* that fails to read.                                                    *)
LinesUntilError(file) ==
    LET e == SelectInSeq(file, LAMBDA l : l = ReadError)
    IN  IF e = 0 THEN file ELSE SubSeq(file, 1, e - 1)

(* credentials.split(':') and its first two items: the line has a second  *)
(* item only when it holds a ':'; the password is the text up to the next *)
(* ':', if any.  Both are trimmed.                                        *)
ParseLine(l) ==
    LET c1   == SelectInSeq(l, LAMBDA x : x = ":")
        rest == SubSeq(l, c1 + 1, Len(l))
        c2   == SelectInSeq(rest, LAMBDA x : x = ":")
    IN  IF c1 = 0 THEN None
        ELSE [username |-> MV!Trim(SubSeq(l, 1, c1 - 1)),
              password |-> MV!Trim(IF c2 = 0 THEN rest ELSE SubSeq(rest, 1, c2 - 1))]

UserFileLinesFiltered(file) ==
    LET ls == SelectSeq(file, LAMBDA l : l # ReadError /\ ParseLine(l) # None)
    IN  [n \in DOMAIN ls |-> ParseLine(ls[n])]

(* The loop of prepare over the lines: every line with a ':' gives one    *)
(* UserCredential, in file order; the others are skipped.                 *)
(* UserFileLinesFiltered skips unreadable lines and reads on.             *)
UserFileLines(file) ==
    LET ls == SelectSeq(LinesUntilError(file), LAMBDA l : ParseLine(l) # None)
    IN  [n \in DOMAIN ls |-> ParseLine(ls[n])]

(* WebAuthConfig::prepare.  The user file name (the configured one or the *)
(* default) is stored first; the name is looked up as given and then in   *)
(* the configuration directory; a file that is not found or cannot be     *)
(* opened is an Err, and t_users is left alone.                           *)
Prepare(cfg, fs) ==
    LET name == IF cfg.userfile = None THEN DefaultUserFile ELSE cfg.userfile
        path == IF name \in fs.exists THEN name ELSE Join(ConfigPath, name)
        cfg1 == [cfg EXCEPT !.userfile = name]
    IN  IF path \notin fs.exists \/ path \in fs.unopenable
        THEN [cfg |-> cfg1, ok |-> FALSE]
        ELSE [cfg |-> [cfg1 EXCEPT !.t_users = UserFileLines(fs.lines[path])],
              ok  |-> TRUE]

(* str::eq_ignore_ascii_case *)
EqIgnoreAsciiCase(a, b) == MV!ToLower(a) = MV!ToLower(b)

(* get_user_password: the password of the first user whose name equals    *)
(* the given one ignoring ASCII case; None before a successful prepare.   *)
GetUserPassword(cfg, username) ==
    IF cfg.t_users = None THEN None
    ELSE LET k == SelectInSeq(cfg.t_users,
                              LAMBDA c : EqIgnoreAsciiCase(c.username, username))
         IN  IF k = 0 THEN None ELSE cfg.t_users[k].password
=============================================================================
