------------------------------ MODULE XtreamInfo ------------------------------
(***************************************************************************)
(* The helpers the Xtream info resolution is built from (backend/src/      *)
(* processing/processor/xtream.rs): read_processed_info_ids, which loads  *)
(* the provider ids already resolved with their timestamps,               *)
(* should_update_info, which decides whether an item is resolved again,   *)
(* and playlist_resolve_download_playlist_item, which fetches one info.   *)
(*                                                                         *)
(* The stored info records are a function from provider id to the         *)
(* timestamp extract_ts gives; storage is [path_ok, load_ok, records]:    *)
(* whether the storage path could be made and whether the BPlusTree       *)
(* loaded.  An item is [provider_id, last_modified], each a u32/u64 or    *)
(* None.  Error messages are tags; the fetched content is "content".      *)
(***************************************************************************)
EXTENDS Integers, Sequences

CONSTANT None

NoIds == [id \in {} |-> 0]

(* read_processed_info_ids: a storage path that cannot be made is an      *)
(* error and no ids; a record file that does not load is no ids and no    *)
(* error; otherwise every record's id with its timestamp.                 *)
ReadProcessedInfoIds(storage) ==
    CASE ~storage.path_ok -> [ids |-> NoIds, errors |-> <<"storage path">>]
      [] ~storage.load_ok -> [ids |-> NoIds, errors |-> <<>>]
      [] OTHER            -> [ids |-> storage.records, errors |-> <<>>]

(* ShouldUpdateInfoMissingIsFresh takes an item without a timestamp as    *)
(* unchanged when its id was processed.                                   *)
ShouldUpdateInfoMissingIsFresh(item, processed) ==
    IF item.provider_id = None THEN <<FALSE, 0, 0>>
    ELSE LET lm == item.last_modified
         IN  <<item.provider_id \notin DOMAIN processed
                 \/ (lm # None /\ processed[item.provider_id] # lm),
               item.provider_id, IF lm = None THEN 0 ELSE lm>>

(* should_update_info: <<update, provider_id, last_modified or 0>>; an    *)
(* item without a provider id is never updated, one without a timestamp   *)
(* always.                                                                *)
ShouldUpdateInfo(item, processed) ==
    IF item.provider_id = None THEN <<FALSE, 0, 0>>
    ELSE LET lm == item.last_modified
         IN  <<item.provider_id \notin DOMAIN processed \/ lm = None
                 \/ processed[item.provider_id] # lm,
               item.provider_id, IF lm = None THEN 0 ELSE lm>>

(* playlist_resolve_download_playlist_item: an item without a provider    *)
(* id returns at once (`?`), before the resolve delay; otherwise the info *)
(* is fetched when an info URL exists, a failed fetch is pushed to the    *)
(* errors, and the task then sleeps resolve_delay seconds.                *)
ResolveDownload(item, has_url, fetch_ok, resolve_delay) ==
    IF item.provider_id = None
    THEN [result |-> None, errors |-> <<>>, slept |-> 0]
    ELSE [result |-> IF has_url /\ fetch_ok THEN "content" ELSE None,
          errors |-> IF has_url /\ ~fetch_ok THEN <<"info">> ELSE <<>>,
          slept  |-> resolve_delay]
=============================================================================
