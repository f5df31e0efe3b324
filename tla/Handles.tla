------------------------------ MODULE Handles ------------------------------
(***************************************************************************)
(* The C interface (ioda_*_c): opaque handles to C++ objects on the heap.  *)
(*                                                                         *)
(* A client keeps handles in variables of its own (slots).  It allocates,  *)
(* copies and destroys them, asks one handle for another (a group for a    *)
(* subgroup, a variable for its dimensions) and calls the functions of     *)
(* their class.  The classes do not destroy alike, and the functions do    *)
(* not fail alike: a null handle or a C++ exception gives FALSE, -1, a     *)
(* null handle, or ends in fatal_error, which throws unless the client has *)
(* installed another exit function.                                        *)
(*                                                                         *)
(* api.heap is the list of the objects ever allocated, api.slot[s] the     *)
(* number of the object slot s points to, 0 for a null pointer.  The       *)
(* result of a C++ call (ok) is any: the model is about what the interface *)
(* makes of it.                                                            *)
(***************************************************************************)
EXTENDS Integers, Sequences, FiniteSets, SequencesExt

CONSTANT MaxHandles     \* objects a session allocates

VARIABLE api

Slots == {"a", "b", "d"}

\* a and b hold handles of one class, d what a function of that class gives.
GivenClasses == {<<"group", "vecstring">>, <<"group", "group">>, <<"has_variables", "variable">>,
                 <<"has_variables", "vecstring">>, <<"variable", "has_attributes">>,
                 <<"variable", "dimensions">>, <<"has_attributes", "attribute">>,
                 <<"has_attributes", "vecstring">>, <<"attribute", "dimensions">>,
                 <<"vecstring", "string">>, <<"creation_parameters", "vecstring">>}

Held(h, s) == h.slot[s]
IsLive(h, a) == a # 0 /\ h.heap[a].live
Dangles(h, s) == Held(h, s) # 0 /\ ~IsLive(h, Held(h, s))

\* delete p: nothing for a null pointer, a fault for an object already gone.
Delete(h, a) ==
    IF a = 0 THEN h
    ELSE IF h.heap[a].live THEN [h EXCEPT !.heap[a].live = FALSE]
    ELSE [h EXCEPT !.faults = @ \cup {h.heap[a].cls}]

PutNull(h, s) == [h EXCEPT !.slot[s] = 0]

PutNew(h, s) ==
    [h EXCEPT !.heap = Append(@, [cls |-> h.cls[s], live |-> TRUE]),
              !.slot[s] = Len(h.heap) + 1]

-----------------------------------------------------------------------------
(* Destroying a handle.                                                    *)

\* The test is the wrong way round: a handle that is not null stays as it is.
ioda_group_c_dtor(h, s) == IF Held(h, s) # 0 THEN h ELSE PutNull(h, s)

\* So it is here, but the handle is forgotten all the same.
ioda_attribute_c_dtor(h, s) == PutNull(h, s)

\* A destructor that leaves the caller's pointer where it was.
ioda_variable_c_dtor_KeepPointer(h, s) == Delete(h, Held(h, s))

ioda_variable_c_dtor(h, s) == PutNull(Delete(h, Held(h, s)), s)

ioda_has_variables_c_dtor(h, s) == PutNull(Delete(h, Held(h, s)), s)

ioda_has_attributes_c_dtor(h, s) == PutNull(Delete(h, Held(h, s)), s)

ioda_variable_creation_parameters_c_dtor(h, s) ==
    IF Held(h, s) = 0 THEN h ELSE PutNull(Delete(h, Held(h, s)), s)

ioda_vecstring_c_dealloc(h, s) == PutNull(Delete(h, Held(h, s)), s)

\* Only a local copy of the pointer becomes null in the last two.
ioda_dimensions_c_dtor(h, s) == Delete(h, Held(h, s))

ioda_string_c_dealloc(h, s) == Delete(h, Held(h, s))

dtor(h, s) ==
    CASE h.cls[s] = "group"          -> ioda_group_c_dtor(h, s)
      [] h.cls[s] = "attribute"      -> ioda_attribute_c_dtor(h, s)
      [] h.cls[s] = "variable"       -> ioda_variable_c_dtor(h, s)
      [] h.cls[s] = "has_variables"  -> ioda_has_variables_c_dtor(h, s)
      [] h.cls[s] = "has_attributes" -> ioda_has_attributes_c_dtor(h, s)
      [] h.cls[s] = "creation_parameters" -> ioda_variable_creation_parameters_c_dtor(h, s)
      [] h.cls[s] = "vecstring"      -> ioda_vecstring_c_dealloc(h, s)
      [] h.cls[s] = "dimensions"     -> ioda_dimensions_c_dtor(h, s)
      [] h.cls[s] = "string"         -> ioda_string_c_dealloc(h, s)

-----------------------------------------------------------------------------
(* Copying a handle: the same code in every class.                         *)

\* Copies the pointer instead of the object.
cloneHandle_Share(h, t, r) ==
    [Delete(h, Held(h, t)) EXCEPT !.slot[t] = Held(h, r)]

\* Forgets the object the target held.
cloneHandle_NoDelete(h, t, r) ==
    IF Held(h, r) = 0 THEN h ELSE PutNew(h, t)

\* The target's object goes first; a null source leaves the target as it is.
cloneHandle(h, t, r) ==
    LET g == Delete(h, Held(h, t))
    IN  CASE Held(g, r) = 0 -> [g EXCEPT !.careless = TRUE]
          [] Dangles(g, r)  -> [g EXCEPT !.faults = @ \cup {h.cls[r]},
                                         !.careless = @ \/ Held(h, t) = Held(h, r)]
          [] OTHER          -> PutNew(g, t)

ioda_group_c_clone(h, t, r) == cloneHandle(h, t, r)
ioda_variable_c_clone(h, t, r) == cloneHandle(h, t, r)
ioda_has_variables_c_clone(h, t, r) == cloneHandle(h, t, r)
ioda_has_attributes_c_clone(h, t, r) == cloneHandle(h, t, r)
ioda_attribute_c_clone(h, t, r) == cloneHandle(h, t, r)
ioda_variable_creation_parameters_c_clone(h, t, r) == cloneHandle(h, t, r)
ioda_vecstring_c_clone(h, t, r) == cloneHandle(h, t, r)
ioda_dimensions_c_clone(h, t, r) == cloneHandle(h, t, r)
ioda_string_c_clone(h, t, r) == cloneHandle(h, t, r)

clone(h, t, r) ==
    CASE h.cls[t] = "group"          -> ioda_group_c_clone(h, t, r)
      [] h.cls[t] = "attribute"      -> ioda_attribute_c_clone(h, t, r)
      [] h.cls[t] = "variable"       -> ioda_variable_c_clone(h, t, r)
      [] h.cls[t] = "has_variables"  -> ioda_has_variables_c_clone(h, t, r)
      [] h.cls[t] = "has_attributes" -> ioda_has_attributes_c_clone(h, t, r)
      [] h.cls[t] = "creation_parameters" -> ioda_variable_creation_parameters_c_clone(h, t, r)
      [] h.cls[t] = "vecstring"      -> ioda_vecstring_c_clone(h, t, r)
      [] h.cls[t] = "dimensions"     -> ioda_dimensions_c_clone(h, t, r)
      [] h.cls[t] = "string"         -> ioda_string_c_clone(h, t, r)

-----------------------------------------------------------------------------
(* The functions of the classes, by what decides how a call ends:          *)
(*   null   what a null handle leads to: fatal_error, an exception of its  *)
(*          own ("throw"), or nothing but the call itself ("none");        *)
(*   caught what the handler of an exception returns, or "fatal"; "none"   *)
(*          when the function has no handler;                              *)
(*   gives  the class of the handle it returns, or "value".                *)

Fun(cls, null, caught, gives) ==
    [cls |-> cls, null |-> null, caught |-> caught, gives |-> gives]

ioda_group_c_list == Fun("group", "throw", "fatal", "vecstring")
ioda_group_c_exists == Fun("group", "throw", "fatal", "value")
ioda_group_c_create == Fun("group", "throw", "fatal", "group")
ioda_group_c_open == Fun("group", "throw", "fatal", "group")

ioda_has_variables_c_list == Fun("has_variables", "throw", "fatal", "vecstring")
ioda_has_variables_c_exists == Fun("has_variables", "throw", "fatal", "value")
ioda_has_variables_c_open == Fun("has_variables", "throw", "fatal", "variable")
ioda_has_variables_c_create == Fun("has_variables", "throw", "null", "variable")
ioda_has_variables_c_create2 == Fun("has_variables", "throw", "null", "variable")

\* remove, whose own exceptions (a null handle) are fatal and those of ioda not.
ioda_has_variables_c_remove == Fun("has_variables", "throw", "fatal unless ioda", "value")

ioda_variable_c_has_attributes == Fun("variable", "fatal", "fatal", "has_attributes")
ioda_variable_c_get_dimensions == Fun("variable", "fatal", "fatal", "dimensions")

\* A query that answers a failure with TRUE.
ioda_variable_c_is_dim_scale_True == Fun("variable", "fatal", "value", "value")

\* resize, attach_dim_scale, detach_dim_scale, set_dim_scale
ioda_variable_c_resize == Fun("variable", "fatal", "false", "value")
ioda_variable_c_is_dim_scale == Fun("variable", "fatal", "-1", "value")
ioda_variable_c_set_is_dimension_scale == Fun("variable", "fatal", "false", "value")
ioda_variable_c_get_dimension_scale_name == Fun("variable", "fatal", "0", "value")
\* is_dimension_scale_attached and is_a
ioda_variable_c_is_a == Fun("variable", "fatal", "-1", "value")
ioda_variable_c_write == Fun("variable", "fatal", "false", "value")
ioda_variable_c_write_char == Fun("variable", "throw", "false", "value")
ioda_variable_c_write_str == Fun("variable", "fatal", "false", "value")
ioda_variable_c_read == Fun("variable", "fatal", "false", "value")
ioda_variable_c_read_char == Fun("variable", "fatal", "false", "value")
ioda_variable_c_read_str == Fun("variable", "fatal", "false", "value")

ioda_has_attributes_c_list == Fun("has_attributes", "throw", "fatal", "vecstring")
ioda_has_attributes_c_exists == Fun("has_attributes", "throw", "-1", "value")
\* remove and rename
ioda_has_attributes_c_remove == Fun("has_attributes", "throw", "false", "value")
ioda_has_attributes_c_open == Fun("has_attributes", "throw", "fatal", "attribute")

ioda_attribute_c_get_dimensions == Fun("attribute", "throw", "fatal", "dimensions")
ioda_attribute_c_write == Fun("attribute", "none", "false", "value")
ioda_attribute_c_read == Fun("attribute", "none", "false", "value")
ioda_attribute_c_is_a == Fun("attribute", "none", "-1", "value")

ioda_dimensions_c_set == Fun("dimensions", "none", "none", "value")
\* get_dimensionality and num_of_elements
ioda_dimensions_c_get_dimensionality == Fun("dimensions", "fatal", "none", "value")
\* get_dims_cur, get_dims_max and their sizes
ioda_dimensions_c_get_dims_cur == Fun("dimensions", "throw", "fatal", "value")

\* chunking, no_compress, compress_with_gzip and with_szip, set_fill_value
ioda_variable_creation_parameters_c_set == Fun("creation_parameters", "throw", "fatal", "value")

\* set, set_string, append, append_string, get, size, clear
ioda_string_c_use == Fun("string", "throw", "fatal", "value")
\* copy, set_string_f and append_string_f: a position out of range throws
ioda_vecstring_c_copy == Fun("vecstring", "throw", "fatal", "value")
ioda_vecstring_c_get_string_f == Fun("vecstring", "throw", "fatal", "string")
\* set_f, append_f, get_f, clear, resize
ioda_vecstring_c_set_f == Fun("vecstring", "throw", "fatal", "value")
\* size, element_size_f, push_back
ioda_vecstring_c_size == Fun("vecstring", "throw", "fatal", "value")

API == {ioda_group_c_list, ioda_group_c_exists, ioda_group_c_create, ioda_group_c_open,
        ioda_has_variables_c_list, ioda_has_variables_c_exists, ioda_has_variables_c_open,
        ioda_has_variables_c_create, ioda_has_variables_c_create2, ioda_has_variables_c_remove,
        ioda_variable_c_has_attributes, ioda_variable_c_get_dimensions, ioda_variable_c_resize,
        ioda_variable_c_is_dim_scale, ioda_variable_c_set_is_dimension_scale,
        ioda_variable_c_get_dimension_scale_name, ioda_variable_c_is_a, ioda_variable_c_write,
        ioda_variable_c_write_char, ioda_variable_c_write_str, ioda_variable_c_read,
        ioda_variable_c_read_char, ioda_variable_c_read_str, ioda_has_attributes_c_list,
        ioda_has_attributes_c_exists, ioda_has_attributes_c_remove, ioda_has_attributes_c_open,
        ioda_attribute_c_get_dimensions, ioda_attribute_c_write, ioda_attribute_c_read,
        ioda_attribute_c_is_a, ioda_dimensions_c_set, ioda_dimensions_c_get_dimensionality,
        ioda_dimensions_c_get_dims_cur, ioda_variable_creation_parameters_c_set,
        ioda_string_c_use, ioda_vecstring_c_copy, ioda_vecstring_c_get_string_f,
        ioda_vecstring_c_set_f, ioda_vecstring_c_size}

\* fatal_error: the client's exit function ends the program, the default one
\* throws, past the C interface when no handler of the function is around it.
fatal_error(h) == IF h.exitfun = "c_exit_fun" THEN "exit" ELSE "thrown"

\* The handler of an exception.
Handled(h, f) ==
    CASE f.caught \in {"fatal", "none", "fatal unless ioda"} -> fatal_error(h)
      [] OTHER -> f.caught

\* How a call ends: ok says whether the C++ code it reaches returns.
Result(h, f, a, ok) ==
    CASE a = 0 /\ f.null = "none" -> "undefined"
      [] a = 0 /\ f.null = "throw" -> Handled(h, f)
      [] a = 0 /\ f.null = "fatal" ->
            IF h.exitfun = "c_exit_fun" THEN "exit" ELSE Handled(h, f)
      [] a # 0 /\ ~IsLive(h, a) -> "undefined"
      [] IsLive(h, a) /\ ok -> "value"
      [] IsLive(h, a) /\ ~ok ->
            IF f.caught = "fatal unless ioda" THEN "false" ELSE Handled(h, f)

-----------------------------------------------------------------------------
Running == api.over = FALSE

\* No session with the C interface.
NoApi ==
    [heap |-> <<>>, slot |-> [s \in Slots |-> 0], cls |-> [s \in Slots |-> "group"],
     exitfun |-> "cxx_exit_fun", faults |-> {}, careless |-> FALSE, over |-> TRUE,
     failed |-> FALSE, result |-> "value"]

ApiInit ==
    \E p \in GivenClasses, e \in {"cxx_exit_fun", "c_exit_fun"} :
        api = [heap |-> <<>>, slot |-> [s \in Slots |-> 0],
               cls |-> [s \in Slots |-> IF s = "d" THEN p[2] ELSE p[1]], exitfun |-> e,
               faults |-> {}, careless |-> FALSE, over |-> FALSE, failed |-> FALSE,
               result |-> "value"]

Returning(h, f, a, ok) ==
    LET r == Result(h, f, a, ok)
    IN  [h EXCEPT !.result = r, !.failed = a = 0 \/ ~ok, !.over = r \in {"exit", "thrown", "undefined"}]

\* ioda_*_c_alloc
Alloc(s) ==
    /\ Running /\ Len(api.heap) < MaxHandles
    /\ Held(api, s) = 0
    /\ api' = PutNew(api, s)

\* The engines: a group handle, or fatal_error.  A file needs a name that is
\* not empty and a mode the interface knows.
int_to_ioda_backend_create_mode(x) == x \in 0 .. 2

int_to_ioda_backend_open_mode(x) == x \in 0 .. 2

ioda_engines_c_hh_create_file(name, mode) == name # "" /\ int_to_ioda_backend_create_mode(mode)

ioda_engines_c_hh_open_file(name, mode) == name # "" /\ int_to_ioda_backend_open_mode(mode)

\* create_memory_file and open_memory_file
ioda_engines_c_hh_memory_file(name) == name # ""

ioda_engines_c_obstore_create_root_group(h, s, ok) ==
    IF ok THEN [PutNew(h, s) EXCEPT !.result = "value", !.failed = FALSE]
    ELSE [h EXCEPT !.result = fatal_error(h), !.failed = TRUE, !.over = TRUE]

\* The checks of each of the engines.
EngineAccepts(engine, name, mode) ==
    CASE engine = "obstore" -> TRUE
      [] engine = "create" -> ioda_engines_c_hh_create_file(name, mode)
      [] engine = "open" -> ioda_engines_c_hh_open_file(name, mode)
      [] engine = "memory" -> ioda_engines_c_hh_memory_file(name)

OpenEngine(s, ok) ==
    /\ Running /\ Len(api.heap) < MaxHandles
    /\ api.cls[s] = "group" /\ Held(api, s) = 0
    /\ \E engine \in {"obstore", "create", "open", "memory"}, name \in {"", "f"}, mode \in 0 .. 3 :
          api' = ioda_engines_c_obstore_create_root_group(api, s, ok /\ EngineAccepts(engine, name, mode))

Dtor(s) ==
    /\ Running
    /\ api' = dtor(api, s)

\* The client may copy a handle onto itself.
Clone(t, r) ==
    /\ Running /\ Len(api.heap) < MaxHandles
    /\ api.cls[t] = api.cls[r]
    /\ api' = clone(api, t, r)

\* A function that returns no handle.
Use(f, s, ok) ==
    /\ Running /\ f.cls = api.cls[s] /\ f.gives = "value"
    /\ api' = Returning(api, f, Held(api, s), ok)

\* A function that returns a handle.  The client destroys what d held first,
\* as the Fortran interface does.
Obtain(f, s, ok) ==
    /\ Running /\ Len(api.heap) < MaxHandles
    /\ s # "d" /\ f.cls = api.cls[s] /\ f.gives = api.cls["d"]
    /\ LET h == dtor(api, "d")
           g == Returning(h, f, Held(h, s), ok)
       IN  api' = CASE g.result = "value" -> PutNew(g, "d")
                    [] g.result = "null"  -> PutNull(g, "d")
                    [] OTHER -> g

\* The attribute the caller's handle names is deleted before the new one is
\* created; if that fails, the handle still names it.
ioda_has_attributes_c_create(h, s, t, ok) ==
    LET g == Returning(h, Fun("has_attributes", "throw", "false", "attribute"), Held(h, s), ok)
    IN  CASE Held(h, s) = 0 -> g
          [] g.result = "value" -> PutNew(Delete(g, Held(h, t)), t)
          [] g.result = "false" ->
                [Delete(g, Held(h, t)) EXCEPT !.careless = @ \/ Held(h, t) # 0]
          [] OTHER -> g

CreateAttribute(s, ok) ==
    /\ Running /\ Len(api.heap) < MaxHandles
    /\ s # "d" /\ api.cls[s] = "has_attributes" /\ api.cls["d"] = "attribute"
    /\ api' = ioda_has_attributes_c_create(api, s, "d", ok)

ApiNext ==
    \/ \E s \in Slots : Alloc(s) \/ Dtor(s)
    \/ \E s, t \in Slots : Clone(s, t)
    \/ \E f \in API, s \in Slots, ok \in BOOLEAN : Use(f, s, ok) \/ Obtain(f, s, ok)
    \/ \E s \in Slots, ok \in BOOLEAN : CreateAttribute(s, ok) \/ OpenEngine(s, ok)

-----------------------------------------------------------------------------
\* An object is named by at most one handle: a copy made by clone or by open
\* is an object of its own, so destroying or editing one handle never touches
\* what another one names.
OneHandlePerObject ==
    \A s, t \in Slots : s # t /\ IsLive(api, Held(api, s)) => Held(api, s) # Held(api, t)

\* The client that never copies from a null handle, never copies a handle onto
\* itself and meets no failing attribute creation reaches a deleted object only
\* through the two destructors that leave their handle as it was.
FreedOnce ==
    ~api.careless => api.faults \subseteq {"dimensions", "string"}

\* An object nobody can reach any more is a group or an attribute: the other
\* classes' destructors, clone and the functions that return a handle leave
\* nothing behind.
OnlyGroupsAndAttributesLeak ==
    \A a \in DOMAIN api.heap :
        api.heap[a].live /\ (\A s \in Slots : Held(api, s) # a)
            => api.heap[a].cls \in {"group", "attribute"}

\* A call on a null handle, or whose C++ code throws, never returns what a call
\* that worked returns.
FailureShows == api.failed => api.result # "value"

\* A C client can rely on its handles: each object has one handle, is freed once and
\* is reachable until then, but for what the destructors of dimensions, strings,
\* groups and attributes do, and failures show (ioda_*_c_dtor, ioda_*_c_clone).
HandlesReliable ==
    OneHandlePerObject /\ FreedOnce /\ OnlyGroupsAndAttributesLeak /\ FailureShows
=============================================================================
