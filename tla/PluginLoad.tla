----------------------------- MODULE PluginLoad -----------------------------
(***************************************************************************)
(* The insertion of plugins in the connections of a server: the pluglets   *)
(* of a plugin file are plugged one by one in the table of protocol        *)
(* operations of the connection, in two parts when the plugin is           *)
(* negotiated; a connection that ends leaves its table and its plugins in  *)
(* a cache, from which a later connection that wants the same plugins      *)
(* takes them.                                                             *)
(*                                                                         *)
(* A plugin file is [negotiate, lines]; a line is a pluglet                *)
(* [pid, param, type, loads] or the marker, of type "-", between the       *)
(* pluglets of the negotiation and the other ones.  "loads" says whether   *)
(* load_elf_file accepts the file.  Each plugin structure that is          *)
(* allocated has a number of its own; "freed" are the ones that were freed.*)
(***************************************************************************)
EXTENDS Integers, Sequences, SequencesExt, FiniteSets

CONSTANTS
    Files,       \* plugin name |-> its file
    CoreOps,     \* pid |-> the parameters the core registers ({NO_PARAM}: none)
    Parametric,  \* the pids of CoreOps that take a parameter
    NO_PARAM,
    Local,       \* quic->local_plugins, the names in order
    ToInject,    \* quic->plugins_to_inject
    Supported,   \* the lists of supported plugins that clients announce
    Slots,       \* the connections the server may have at a time
    None,
    MaxPlugins,  \* bound: the plugin structures allocated
    MaxCached    \* bound: the entries of the cache

VARIABLES
    cnx,    \* slot |-> the connection
    cache,  \* quic->cached_plugins_queue
    count,  \* the plugin structures allocated so far
    freed

vars == <<cnx, cache, count, freed>>

(* The table is hashed by the hash of the operation's name, an integer. *)
Hash(pid) == <<"hash", pid>>
Name(pid) == <<"name", pid>>

create_protocol_operation_param(core) ==
    [core |-> core, intern |-> TRUE, replace |-> None, pre |-> <<>>, post |-> <<>>]

register_protocol_operations ==
    [h \in {Hash(pid) : pid \in DOMAIN CoreOps} |->
        [parametrable |-> h[2] \in Parametric,
         params |-> [q \in CoreOps[h[2]] |-> create_protocol_operation_param(TRUE)]]]

Absent == [phase |-> "none", ops |-> <<>>, plugins |-> {}, supported |-> <<>>, failed |-> {}]

Init ==
    /\ cnx = [s \in Slots |-> Absent]
    /\ cache = <<>>
    /\ count = 0
    /\ freed = {}

-----------------------------------------------------------------------------
With(f, k, v) == [x \in DOMAIN f \cup {k} |-> IF x = k THEN v ELSE f[x]]

(* The checks on the entry before the pluglet is loaded. *)
Pluggable(e, type) ==
    /\ ~(type \in {"replace", "extern"} /\ e.replace # None)
    /\ ~(~e.intern /\ type \in {"pre", "post"})
    /\ ~(e.intern /\ type = "extern" /\ (e.core \/ e.pre # <<>> \/ e.post # <<>>))

plug_elf_param_struct(e, p, type) ==
    CASE type = "extern"  -> [e EXCEPT !.intern = FALSE, !.replace = p]
      [] type = "replace" -> [e EXCEPT !.replace = p]
      [] type = "pre"     -> [e EXCEPT !.pre = <<p>> \o @]
      [] type = "post"    -> [e EXCEPT !.post = <<p>> \o @]

(* An operation that does not exist is registered first, without core; the *)
(* entry of a new parameter is only inserted once its pluglet is plugged.  *)
Registered(ops, l) ==
    IF Hash(l.pid) \in DOMAIN ops THEN ops
    ELSE With(ops, Hash(l.pid),
              [parametrable |-> l.param # NO_PARAM,
               params |-> [q \in {l.param} |-> create_protocol_operation_param(FALSE)]])

plugin_plug_elf(ops, p, l) ==
    LET known == Registered(ops, l)
        post == known[Hash(l.pid)]
        e == IF l.param \in DOMAIN post.params THEN post.params[l.param]
             ELSE create_protocol_operation_param(FALSE)
    IN IF post.parametrable = (l.param # NO_PARAM) /\ Pluggable(e, l.type) /\ l.loads
       THEN [ok |-> TRUE,
             ops |-> [known EXCEPT ![Hash(l.pid)].params =
                        With(@, l.param, plug_elf_param_struct(e, p, l.type))]]
       ELSE [ok |-> FALSE, ops |-> known]

(* The entry without its first pluglet of the type. *)
Unplugged(e, type) ==
    CASE type \in {"replace", "extern"} -> [e EXCEPT !.replace = None]
      [] type = "pre"  -> [e EXCEPT !.pre = Tail(@)]
      [] type = "post" -> [e EXCEPT !.post = Tail(@)]

Plugged(e, type) ==
    CASE type = "extern"  -> ~e.intern /\ e.replace # None
      [] type = "replace" -> e.replace # None
      [] type = "pre"     -> e.pre # <<>>
      [] type = "post"    -> e.post # <<>>

Idle(e) == ~e.core /\ e.replace = None /\ e.pre = <<>> /\ e.post = <<>>

Without(f, k) == [x \in DOMAIN f \ {k} |-> f[x]]

(* plugin_unplug looks the operation up by its name (HASH_FIND_STR), in a  *)
(* table whose keys are hashes.                                            *)
plugin_unplug(ops, node) ==
    LET key == Name(node.pid)
        post == ops[key]
        e == post.params[node.param]
        left == Unplugged(e, node.type)
    IN IF \/ key \notin DOMAIN ops
          \/ post.parametrable # (node.param # NO_PARAM)
          \/ node.param \notin DOMAIN post.params
          \/ ~Plugged(e, node.type)
       THEN ops
       ELSE IF ~Idle(left) THEN [ops EXCEPT ![key].params[node.param] = left]
       ELSE IF post.parametrable THEN [ops EXCEPT ![key].params = Without(@, node.param)]
       ELSE Without(ops, key)

-----------------------------------------------------------------------------
(* insert_pluglet_from_plugin_line: the lines before ("pre") or after      *)
(* ("post") the marker, or all of them.  st.last is what the last line     *)
(* that could be parsed left in the variables of the caller, st.nodes the  *)
(* stack of what was inserted.                                             *)
Passes_AfterToo(mode, seen) == mode = "post" /\ ~seen

Passes(mode, seen) == (mode = "pre" /\ seen) \/ (mode = "post" /\ ~seen)

Tracked(mode, seen) == mode = "all" \/ (mode = "pre" /\ ~seen) \/ (mode = "post" /\ seen)

insert_pluglet(st, l, p, mode) ==
    LET marks == l.type = "-" /\ mode # "all" /\ ~st.seen
        last == IF l.type = "-" THEN st.last ELSE l
        seen == st.seen \/ marks
        Inserted(r) ==
            [ok |-> r.ok, ops |-> r.ops, seen |-> seen, last |-> last,
             nodes |-> IF r.ok /\ Tracked(mode, seen) THEN <<last>> \o st.nodes ELSE st.nodes]
    IN IF ~st.ok THEN st
       ELSE IF marks \/ (l.type # "-" /\ Passes(mode, st.seen)) THEN Inserted([ok |-> TRUE, ops |-> st.ops])
       ELSE IF l.type = "-" THEN Inserted([ok |-> FALSE, ops |-> st.ops])
       ELSE Inserted(plugin_plug_elf(st.ops, p, l))

InsertLines(ops, p, lines, mode) ==
    LET Undone(st) == [ok |-> st.ok,
                       ops |-> IF st.ok THEN st.ops ELSE FoldLeft(plugin_unplug, st.ops, st.nodes)]
    IN Undone(FoldLeft(LAMBDA s, l : insert_pluglet(s, l, p, mode),
                       [ok |-> TRUE, ops |-> ops, seen |-> FALSE, last |-> None, nodes |-> <<>>],
                       lines))

(* The context k = [ops, plugins, count, freed] after the insertion of the *)
(* plugin file of the name, and after the one of its second part.          *)
plugin_insert_plugin(k, name) ==
    LET p == k.count + 1
        After(r) ==
       [k EXCEPT !.ops = r.ops, !.count = p,
                 !.plugins = IF r.ok THEN @ \cup {[name |-> name, id |-> p, whole |-> ~Files[name].negotiate]} ELSE @,
                 !.freed = IF r.ok THEN @ ELSE @ \cup {p},
                 !.failed = IF r.ok THEN @ ELSE @ \cup {name}]
    IN After(InsertLines(k.ops, p, Files[name].lines, IF Files[name].negotiate THEN "pre" ELSE "all"))

plugin_insert_post_plugin(k, q) ==
    LET After(r) ==
       [k EXCEPT !.ops = r.ops,
                 !.plugins = IF r.ok THEN (@ \ {q}) \cup {[q EXCEPT !.whole = TRUE]} ELSE @,
                 !.freed = IF r.ok THEN @ ELSE @ \cup {q.id}]
    IN After(InsertLines(k.ops, q.id, Files[q.name].lines, "post"))

-----------------------------------------------------------------------------
(* plugin_insert_plugins_from_cache: the queue is turned until an entry    *)
(* with the wanted plugins comes out.  When none does, the turning stops   *)
(* with the first entry taken out again.                                   *)
Matches(entry, names) ==
    /\ Cardinality(entry.plugins) = Len(names)
    /\ Range(names) \subseteq {q.name : q \in entry.plugins}

Hits(names) == {i \in DOMAIN cache : Matches(cache[i], names)}
MayUseCache(names) == \A i \in DOMAIN names : ~Files[names[i]].negotiate

Hit(names) == MayUseCache(names) /\ Hits(names) # {}
FirstHit(names) == CHOOSE i \in Hits(names) : \A j \in Hits(names) : i <= j

Turned(i) == SubSeq(cache, i + 1, Len(cache)) \o SubSeq(cache, 1, i - 1)

CacheAfter(names) ==
    IF ~MayUseCache(names) \/ cache = <<>> THEN cache
    ELSE IF Hits(names) # {} THEN Turned(FirstHit(names))
    ELSE Tail(cache)

plugin_insert_plugins(k, names) ==
    IF Hit(names)
    THEN [k EXCEPT !.ops = cache[FirstHit(names)].ops, !.plugins = cache[FirstHit(names)].plugins]
    ELSE FoldLeft(plugin_insert_plugin, k, names)

Context(ops, plugins) == [ops |-> ops, plugins |-> plugins, count |-> count, freed |-> freed, failed |-> {}]

-----------------------------------------------------------------------------
(* picoquic_create_cnx: the core operations, then the local plugins.  When *)
(* one cannot be inserted the connection is forgotten.                     *)
create_cnx(s) ==
    /\ cnx[s].phase = "none"
    /\ count + Len(Local) <= MaxPlugins
    /\ LET fresh == Context(register_protocol_operations, {})
       IN \E k \in {IF Local = <<>> THEN fresh ELSE plugin_insert_plugins(fresh, Local)} :
            /\ cnx' = [cnx EXCEPT ![s] =
                         [phase |-> IF k.failed # {} THEN "forgotten" ELSE "created",
                          ops |-> k.ops, plugins |-> k.plugins,
                          supported |-> <<>>, failed |-> k.failed]]
            /\ count' = k.count
            /\ freed' = k.freed
    /\ cache' = IF Local = <<>> THEN cache ELSE CacheAfter(Local)

(* picoquic_handle_plugin_negotiation of a server, when the transport      *)
(* parameters of the client have come: the second parts of the plugins     *)
(* that were negotiated, then the plugins to inject that it supports.      *)
PidIndex(name) == name \in Range(ToInject)

handle_plugin_to_negotiate(k, negotiated) ==
    FoldLeft(LAMBDA x, q : IF q \in negotiated THEN plugin_insert_post_plugin(x, q) ELSE x,
             k, SetToSortSeq(k.plugins, LAMBDA a, b : a.id < b.id))

handle_plugin_negotiation(s, supported, negotiated) ==
    LET names == SelectSeq(supported, PidIndex)
        Inject(k) == IF supported = <<>> THEN k ELSE plugin_insert_plugins(k, names)
    IN /\ cnx[s].phase = "created"
       /\ count + Len(supported) <= MaxPlugins
       /\ \E k \in {Inject(handle_plugin_to_negotiate(Context(cnx[s].ops, cnx[s].plugins), negotiated))} :
            /\ cnx' = [cnx EXCEPT ![s] = [phase |-> "ready", ops |-> k.ops, plugins |-> k.plugins,
                                             supported |-> supported, failed |-> k.failed]]
            /\ count' = k.count
            /\ freed' = k.freed
       /\ cache' = IF supported = <<>> THEN cache ELSE CacheAfter(names)

(* picoquic_delete_cnx at the server: the operations and the plugins go to *)
(* the cache.                                                              *)
delete_cnx(s) ==
    /\ cnx[s].phase \in {"created", "ready"}
    /\ Len(cache) < MaxCached
    /\ cache' = Append(cache, [ops |-> cnx[s].ops, plugins |-> cnx[s].plugins])
    /\ cnx' = [cnx EXCEPT ![s] = Absent]
    /\ UNCHANGED <<count, freed>>

Next ==
    \E s \in Slots :
        \/ create_cnx(s)
        \/ \E list \in Supported : \E n \in SUBSET {q \in cnx[s].plugins : Files[q.name].negotiate} :
               handle_plugin_negotiation(s, list, n)
        \/ delete_cnx(s)

Spec == Init /\ [][Next]_vars

-----------------------------------------------------------------------------
Entries(ops) == UNION {Range(ops[h].params) : h \in DOMAIN ops}
Pluglets(ops) == UNION {({e.replace} \ {None}) \cup Range(e.pre) \cup Range(e.post) : e \in Entries(ops)}
Alive == {s \in Slots : cnx[s].phase \in {"created", "ready"}}
Names(plugins) == {q.name : q \in plugins}

(* "extern operations can only be called by the application and have no    *)
(* observers": an operation of which a plugin made an external one never   *)
(* has an observer or a core function, in whichever order the files of the *)
(* plugins plug them.                                                      *)
ExternIsAlone ==
    \A s \in Slots : \A e \in Entries(cnx[s].ops) :
        ~e.intern => ~e.core /\ e.pre = <<>> /\ e.post = <<>>

(* The pluglet of line l is in the table for plugin p. *)
IsPlugged(ops, p, l) ==
    /\ Hash(l.pid) \in DOMAIN ops
    /\ l.param \in DOMAIN ops[Hash(l.pid)].params
    /\ LET e == ops[Hash(l.pid)].params[l.param]
       IN CASE l.type \in {"replace", "extern"} -> e.replace = p
            [] l.type = "pre"  -> p \in Range(e.pre)
            [] l.type = "post" -> p \in Range(e.post)

MarkerAt(lines) == CHOOSE i \in 1 .. Len(lines) + 1 :
                      /\ i = Len(lines) + 1 \/ lines[i].type = "-"
                      /\ \A j \in 1 .. i - 1 : lines[j].type # "-"

(* A plugin of a connection has exactly the pluglets it should: those of   *)
(* the negotiation until it is negotiated, then all of them, also when the *)
(* connection has its plugins from the cache.                              *)
InsertedIsWhole ==
    \A s \in Alive : \A q \in cnx[s].plugins :
        LET lines == Files[q.name].lines
            m == MarkerAt(lines)
        IN q.id \notin freed =>
             \A i \in DOMAIN lines :
                lines[i].type # "-" =>
                    (IsPlugged(cnx[s].ops, q.id, lines[i]) <=> (q.whole \/ i < m))

(* A connection has the local plugins and, once negotiated, those plugins  *)
(* to inject that its client supports and that could be inserted, and no   *)
(* other, whatever the connections before it left in the cache.            *)
ConnectionHasWhatItWants ==
    \A s \in Alive :
        Names(cnx[s].plugins) = Range(Local) \cup
            ((Range(cnx[s].supported) \cap Range(ToInject)) \ cnx[s].failed)

Owned(c) == {q.id : q \in c.plugins} \cup Pluglets(c.ops)
InCache == UNION {Owned(entry) : entry \in Range(cache)}
Held == InCache \cup UNION {Owned(cnx[s]) : s \in Slots}

(* The memory of a plugin belongs to at most one connection or entry of    *)
(* the cache: no two of them share a plugin structure.                     *)
PluginHasOneOwner ==
    /\ \A s, t \in Slots : s # t => Owned(cnx[s]) \cap Owned(cnx[t]) = {}
    /\ \A i, j \in DOMAIN cache : i # j => Owned(cache[i]) \cap Owned(cache[j]) = {}
    /\ \A s \in Slots : Owned(cnx[s]) \cap InCache = {}

(* A plugin is not forgotten: it stays with a connection or in the cache,  *)
(* or is freed, when connections begin, negotiate and end and the cache is *)
(* searched.  The exception is what the search does when it finds nothing: *)
(* the oldest entry is taken out and not put back.                         *)
PluginsAreKept ==
    [][\A id \in Held \ Held' :
           id \in freed' \/ (cache' = Tail(cache) /\ id \in Owned(Head(cache)))]_vars

(* "Otherwise, reinsert in the queue and continue": a plugin that is       *)
(* allocated is freed, or a connection or the cache holds it.              *)
EveryPluginHasAnOwner == \A id \in 1..count : id \in freed \cup Held

(* "in an atomic, transaction style. This means, if one of the plugins     *)
(* cannot be inserted for any reason, all the previously inserted ones     *)
(* will be unplugged": no operation of a connection has a pluglet of a     *)
(* plugin whose insertion failed.                                          *)
InsertionIsATransaction == \A s \in Alive : Pluglets(cnx[s].ops) \cap freed = {}
=============================================================================
