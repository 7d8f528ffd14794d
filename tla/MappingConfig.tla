---------------------------- MODULE MappingConfig ----------------------------
(***************************************************************************)
(* The preparation of the mapping configuration (backend/src/model/        *)
(* mapping.rs): MappingDefinition::prepare, which prepares the templates   *)
(* and then every Mapping; Mapping::prepare, which prepares its mappers    *)
(* and builds its counters; Mapper::prepare; and Mappings::get_mapping.    *)
(*                                                                         *)
(* A mapper is [filter, script, t_filter, t_script], a counter definition *)
(* [filter, field, value] (concat, modifier and padding are copied as     *)
(* they are and left out), a mapping [id, mapper, counter, t_counter,     *)
(* templates], where mapper and counter are None or a sequence.  get_filter *)
(* and the template expansion and parse of a script are outside this      *)
(* tree: a filter text fails exactly when it is in BadFilters, a script   *)
(* when it is in BadScripts, a template list when it is in BadTemplates.  *)
(* Some(filter) and Some(script) are the texts themselves.                *)
(***************************************************************************)
EXTENDS Integers, Sequences, SequencesExt

CONSTANTS
    None,           \* Option::None
    BadFilters,     \* filter texts get_filter rejects
    BadScripts,     \* scripts whose template expansion or parse fails
    BadTemplates    \* template lists prepare_templates rejects

COUNTER_FIELDS == {"name", "title", "caption", "chno"}

\* prepare_templates of an accepted list: the list, marked prepared.
PreparedTemplates(t) == [list |-> t, prepared |-> TRUE]

-----------------------------------------------------------------------------
(* A `for x in xs { x.prepare(..)?; }` loop: every item is prepared in    *)
(* turn until the first that fails; the items after it stay as they were. *)
(* rs[i] is the [out, ok] that preparing xs[i] gives.                     *)
StopAtFirstError(rs, xs) ==
    FoldLeftDomain(LAMBDA acc, i : IF acc.ok
                                   THEN [out |-> Append(acc.out, rs[i].out), ok |-> rs[i].ok]
                                   ELSE [acc EXCEPT !.out = Append(@, xs[i])],
                   [out |-> <<>>, ok |-> TRUE], xs)

(* Mapper::prepare: t_filter is set as soon as get_filter succeeds, so a  *)
(* script that then fails leaves the mapper with a filter and no script.  *)
(* MapperPrepareFilterLast stores the filter only once the script parsed. *)
MapperPrepareFilterLast(mp) ==
    CASE mp.filter \in BadFilters \/ mp.script \in BadScripts -> [out |-> mp, ok |-> FALSE]
      [] OTHER -> [out |-> [mp EXCEPT !.t_filter = mp.filter, !.t_script = mp.script],
                   ok  |-> TRUE]

MapperPrepare(mp) ==
    CASE mp.filter \in BadFilters -> [out |-> mp, ok |-> FALSE]
      [] mp.script \in BadScripts -> [out |-> [mp EXCEPT !.t_filter = mp.filter], ok |-> FALSE]
      [] OTHER -> [out |-> [mp EXCEPT !.t_filter = mp.filter, !.t_script = mp.script],
                   ok  |-> TRUE]

(* One counter definition of Mapping::prepare: the field must be a        *)
(* COUNTER_FIELDS entry and the filter must compile; the counter starts   *)
(* at the definition's value.                                             *)
CounterPrepare(def) ==
    [out |-> [filter |-> def.filter, field |-> def.field, value |-> def.value],
     ok  |-> def.field \in COUNTER_FIELDS /\ def.filter \notin BadFilters]

(* Mapping::prepare with the definition's templates T: the templates are  *)
(* stored first, then the mappers are prepared in place, and the counters *)
(* are built into a local vector that becomes t_counter only when every   *)
(* definition succeeded.                                                  *)
MappingPrepare(m, T) ==
    LET ms == IF m.mapper = None THEN [out |-> None, ok |-> TRUE]
              ELSE StopAtFirstError([i \in DOMAIN m.mapper |-> MapperPrepare(m.mapper[i])], m.mapper)
        cs == IF m.counter = None THEN [out |-> None, ok |-> TRUE]
              ELSE StopAtFirstError([i \in DOMAIN m.counter |-> CounterPrepare(m.counter[i])], m.counter)
        m1 == [m EXCEPT !.templates = T, !.mapper = ms.out]
    IN  CASE ~ms.ok -> [out |-> m1, ok |-> FALSE]
          [] ~cs.ok -> [out |-> m1, ok |-> FALSE]
          [] OTHER  -> [out |-> IF m.counter = None THEN m1
                                ELSE [m1 EXCEPT !.t_counter = cs.out],
                        ok  |-> TRUE]

(* MappingDefinition::prepare: a template list that fails to prepare     *)
(* returns before anything changes; otherwise the prepared list replaces *)
(* it and the mappings are prepared in turn up to the first failure.      *)
DefinitionPrepare(d) ==
    IF d.templates # None /\ d.templates \in BadTemplates
    THEN [out |-> d, ok |-> FALSE]
    ELSE LET T  == IF d.templates = None THEN None ELSE PreparedTemplates(d.templates)
             r  == StopAtFirstError([i \in DOMAIN d.mapping |-> MappingPrepare(d.mapping[i], T)], d.mapping)
         IN  [out |-> [templates |-> T, mapping |-> r.out], ok |-> r.ok]

(* Mappings::get_mapping: a clone of the first mapping with the id.       *)
GetMapping(d, id) ==
    LET k == SelectInSeq(d.mapping, LAMBDA m : m.id = id)
    IN  IF k = 0 THEN None ELSE d.mapping[k]
=============================================================================
