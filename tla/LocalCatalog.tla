---------------------------- MODULE LocalCatalog ----------------------------
(***************************************************************************)
(* The rows of the local database that refer to each other: what each save *)
(* and delete of repositories/hosts.rs and database.rs does to the row and *)
(* to the rows that refer to it.  Windows share the database file, each    *)
(* through a connection of its own, and an editor saves the references it  *)
(* read when it was opened.  An SFTP pane shows whether a directory of its  *)
(* host is a favorite, as it read it when it connected.  A uuid is its row; *)
(* the columns that refer to no row are the one abstract content a save    *)
(* may change.                                                             *)
(***************************************************************************)
EXTENDS Integers, FiniteSets

CONSTANTS
  Rows,          \* bound: the rows that can be inserted
  Windows,       \* the windows with an editor
  Panes,         \* the SFTP panes of the windows
  NoRow,
  Catalogs       \* the functions Rows -> Tables to check

ASSUME CatalogAssumption == NoRow \notin Rows

VARIABLES
  table,       \* the table each row belongs to
  row,         \* its deleted_at ("absent" before the insert) and references
  linked,      \* host_tags, snippet_target_groups and snippet_target_hosts
  editor,      \* per window, the row it edits and the references it holds
  pane,        \* per pane, the host it is connected to and the favorite it shows
  stamped,     \* history: the rows whose stamp and version the last step moved
  outdated,    \* history: the references to deleted rows that editors saved
  overtaken    \* history: the panes whose host's favorite another step has changed

catalogVars == <<table, row, linked, editor, pane, stamped, outdated, overtaken>>
panes == <<pane, overtaken>>

-----------------------------------------------------------------------------
(* The schema: the columns of each table that refer to a row.              *)

GroupColumns == [parent |-> "groups", identity |-> "identities", proxy |-> "proxies",
                 snippet |-> "snippets", telnet |-> "identities", key |-> "keys"]
HostColumns == [group |-> "groups", identity |-> "identities", proxy |-> "proxies",
                snippet |-> "snippets", telnet |-> "identities", key |-> "keys"]
IdentityColumns == [key |-> "keys"]
PortForwardColumns == [host |-> "hosts"]
ProxyColumns == [identity |-> "identities"]
FavoriteColumns == [host |-> "hosts"]
SnippetColumns == [package |-> "packages"]
NoColumns == [c \in {} |-> ""]
Columns == [groups |-> GroupColumns, hosts |-> HostColumns, identities |-> IdentityColumns,
            forwards |-> PortForwardColumns, proxies |-> ProxyColumns,
            favorites |-> FavoriteColumns, snippets |-> SnippetColumns,
            keys |-> NoColumns, tags |-> NoColumns, packages |-> NoColumns]
Tables == DOMAIN Columns
ASSUME CatalogsAssumption == Catalogs \subseteq [Rows -> Tables]

Required == {<<"forwards", "host">>, <<"favorites", "host">>}

(* The tables linked to rows of another one, owner first.                  *)
Links == {<<"hosts", "tags">>, <<"snippets", "groups">>, <<"snippets", "hosts">>}

Of(t) == {r \in Rows : table[r] = t}
Live(r) == row[r].state = "live"
Selectable(t) == {NoRow} \cup {r \in Of(t) : Live(r)}
Unset(t) == [c \in DOMAIN Columns[t] |-> NoRow]
LinksOf(r) == {l \in linked : l[1] = r}
Refers(r, c, d) == c \in DOMAIN row[r].refs /\ row[r].refs[c] = d
FavoritesOf(h) == {f \in Of("favorites") : Refers(f, "host", h)}
LiveFavorites(h) == {f \in FavoritesOf(h) : Live(f)}

-----------------------------------------------------------------------------
(* Editors.                                                                *)

NoEditor == [row |-> NoRow, pc |-> "closed", refs |-> Unset("tags"), links |-> {}]

(* get_... of a live row: it finds the rows it refers to while they live,   *)
(* and a package in any case.                                              *)
ShownDeleted == {<<"snippets", "package">>}
Resolved(r) ==
  [c \in DOMAIN row[r].refs |->
     LET d == row[r].refs[c]
     IN  IF d # NoRow /\ (Live(d) \/ <<table[r], c>> \in ShownDeleted) THEN d ELSE NoRow]

OpenEditor(w, r) ==
  /\ editor[w] = NoEditor /\ row[r].state \in {"absent", "live"} /\ table[r] # "favorites"
  /\ editor' = [editor EXCEPT ![w] =
       [row |-> r, pc |-> "editing", refs |-> Resolved(r),
        links |-> {l \in LinksOf(r) : Live(l[2])}]]
  /\ stamped' = {} /\ UNCHANGED <<table, row, linked, panes, outdated>>

(* The user picks one of the rows the window lists.                        *)
ChooseReference(w) ==
  /\ editor[w].pc = "editing"
  /\ \/ \E c \in DOMAIN editor[w].refs :
          \E d \in Selectable(Columns[table[editor[w].row]][c]) :
            editor' = [editor EXCEPT ![w].refs = [@ EXCEPT ![c] = d]]
     \/ \E d \in {d \in Rows : Live(d) /\ <<table[editor[w].row], table[d]>> \in Links} :
          editor' = [editor EXCEPT ![w].links =
            IF <<editor[w].row, d>> \in @ THEN @ \ {<<editor[w].row, d>>}
            ELSE @ \cup {<<editor[w].row, d>>}]
  /\ editor' # editor
  /\ stamped' = {} /\ UNCHANGED <<table, row, linked, panes, outdated>>

(* Closed without a save, or the process ended, between the two steps of   *)
(* save_host too.                                                          *)
CloseEditor(w) ==
  /\ editor[w] # NoEditor
  /\ editor' = [editor EXCEPT ![w] = NoEditor]
  /\ stamped' = {} /\ UNCHANGED <<table, row, linked, panes, outdated>>

-----------------------------------------------------------------------------
(* Saves: one statement inserts the row, or updates it and makes a deleted *)
(* row live again.  A reference is saved whether or not its row still is.  *)

relation_uuid(w, c) == editor[w].refs[c]
Outdated(r, refs, pairs) ==
  LET lost == {e \in Rows : ~ Live(e) /\ (<<r, e>> \in pairs \/ \E c \in DOMAIN refs : refs[c] = e)}
  IN  {p \in outdated : p[1] # r} \cup {<<r, d>> : d \in lost}
EditedRow(w) ==
  [state |-> "live", refs |-> [c \in DOMAIN editor[w].refs |-> relation_uuid(w, c)]]

SaveEdited(w, t) ==
  LET r == editor[w].row IN
  /\ editor[w].pc = "editing" /\ table[r] = t
  /\ \A c \in DOMAIN editor[w].refs : <<t, c>> \in Required => relation_uuid(w, c) # NoRow
  /\ row' = [row EXCEPT ![r] = EditedRow(w)]
  /\ editor' = [editor EXCEPT ![w] = NoEditor]
  /\ stamped' = {r} /\ outdated' = Outdated(r, EditedRow(w).refs, LinksOf(r))
  /\ UNCHANGED <<table, linked, panes>>

save_group(w) == SaveEdited(w, "groups")
save_key(w) == SaveEdited(w, "keys")
save_identity(w) == SaveEdited(w, "identities")
save_tag(w) == SaveEdited(w, "tags")
save_port_forward(w) == SaveEdited(w, "forwards")
save_proxy(w) == SaveEdited(w, "proxies")
save_snippet_package(w) == SaveEdited(w, "packages")

(* The columns are committed first, the tags in a transaction of their own. *)
save_host(w) ==
  LET r == editor[w].row IN
  /\ editor[w].pc = "editing" /\ table[r] = "hosts"
  /\ row' = [row EXCEPT ![r] = EditedRow(w)]
  /\ editor' = [editor EXCEPT ![w].pc = "tags"]
  /\ stamped' = {r} /\ outdated' = Outdated(r, EditedRow(w).refs, LinksOf(r))
  /\ UNCHANGED <<table, linked, panes>>

replace_host_tags(w) ==
  LET r == editor[w].row IN
  /\ editor[w].pc = "tags"
  /\ linked' = (linked \ LinksOf(r)) \cup {l \in editor[w].links : Live(l[2])}
  /\ editor' = [editor EXCEPT ![w] = NoEditor]
  /\ stamped' = {} /\ UNCHANGED <<table, row, panes, outdated>>

(* Rows of these tables and columns that refer to r no longer do.          *)
Cleared(r, columns) ==
  [o \in Rows |->
     [state |-> row[o].state,
      refs |-> [c \in DOMAIN row[o].refs |->
                  IF <<table[o], c>> \in columns /\ row[o].refs[c] = r THEN NoRow
                  ELSE row[o].refs[c]]]]
Referring(r, columns) == {o \in Rows : \E tc \in columns : table[o] = tc[1] /\ Refers(o, tc[2], r)}

StartupSnippets == {<<"groups", "snippet">>, <<"hosts", "snippet">>}

(* In one transaction: the row, its targets anew, and no group or host runs *)
(* the snippet at startup any more.                                        *)
save_snippet(w) ==
  LET r == editor[w].row IN
  /\ editor[w].pc = "editing" /\ table[r] = "snippets"
  /\ row' = [Cleared(r, StartupSnippets) EXCEPT ![r] = EditedRow(w)]
  /\ linked' = (linked \ LinksOf(r)) \cup editor[w].links
  /\ editor' = [editor EXCEPT ![w] = NoEditor]
  /\ stamped' = {r} \cup Referring(r, StartupSnippets)
  /\ outdated' = Outdated(r, EditedRow(w).refs, editor[w].links)
  /\ UNCHANGED <<table, panes>>

-----------------------------------------------------------------------------
(* Deletes: one transaction clears what refers to the row, deletes its own *)
(* rows and marks it deleted.                                              *)

Deleted(rows, by) ==
  [o \in Rows |-> [state |-> IF o \in by THEN "deleted" ELSE rows[o].state,
                   refs |-> rows[o].refs]]

(* columns: references to clear; owned: rows to delete with it; unlinked:  *)
(* links to remove; touched: further rows that get a new stamp.  The panes *)
(* go on showing what they have read.                                      *)
DeleteRow(r, t, columns, owned, unlinked, touched) ==
  LET gone == {o \in owned \cup {r} : Live(o)} IN
  /\ table[r] = t /\ row[r].state # "absent"
  /\ row' = Deleted(Cleared(r, columns), gone)
  /\ linked' = linked \ unlinked
  /\ stamped' = gone \cup Referring(r, columns) \cup touched
  /\ overtaken' = overtaken \cup {p \in Panes : FavoritesOf(pane[p].host) \cap gone # {}}
  /\ UNCHANGED <<table, editor, pane, outdated>>

Targeting(r) == {l \in linked : l[2] = r /\ table[l[1]] = "snippets"}

(* A plausible bug: the groups that use a key are forgotten.               *)
KeyOfGroupsKept(r) == DeleteRow(r, "keys", {<<"identities", "key">>, <<"hosts", "key">>}, {}, {}, {})

delete_group(r) ==
  DeleteRow(r, "groups", {<<"groups", "parent">>, <<"hosts", "group">>}, {}, Targeting(r), {})
delete_key(r) ==
  DeleteRow(r, "keys", {<<"identities", "key">>, <<"hosts", "key">>, <<"groups", "key">>},
            {}, {}, {})
delete_identity(r) ==
  DeleteRow(r, "identities",
            {<<"hosts", "identity">>, <<"hosts", "telnet">>, <<"groups", "identity">>,
             <<"groups", "telnet">>, <<"proxies", "identity">>}, {}, {}, {})
(* A plausible bug: the hosts that lose the tag keep their stamp.          *)
TagTakenUnstamped(r) == DeleteRow(r, "tags", {}, {}, {l \in linked : l[2] = r}, {})
delete_tag(r) ==
  DeleteRow(r, "tags", {}, {}, {l \in linked : l[2] = r},
            {l[1] : l \in {k \in linked : k[2] = r}})
delete_host(r) ==
  DeleteRow(r, "hosts", {},
            {o \in Of("forwards") \cup Of("favorites") : Refers(o, "host", r)}, Targeting(r), {})
delete_port_forward(r) == DeleteRow(r, "forwards", {}, {}, {}, {})
delete_proxy(r) ==
  DeleteRow(r, "proxies", {<<"hosts", "proxy">>, <<"groups", "proxy">>}, {}, {}, {})
delete_snippet_package(r) == DeleteRow(r, "packages", {<<"snippets", "package">>}, {}, {}, {})
(* The groups and hosts that run the snippet at startup keep naming it.    *)
delete_snippet(r) == DeleteRow(r, "snippets", {}, {}, LinksOf(r), {})

-----------------------------------------------------------------------------
(* Favorites of one directory: a pane reads what its host has when it      *)
(* connects, and switches what it shows, ignoring what the call returns.   *)

loadRemoteSftpFavorites(p, h) ==
  /\ table[h] = "hosts" /\ row[h].state # "absent"
  /\ pane' = [pane EXCEPT ![p] = [host |-> h, favorite |-> LiveFavorites(h) # {}]]
  /\ overtaken' = overtaken \ {p}
  /\ stamped' = {} /\ UNCHANGED <<table, row, linked, editor, outdated>>

(* The pane p knows its host's favorite, and the others do not know of the  *)
(* change.                                                                 *)
Switched(p, shows, changes) ==
  /\ pane' = [pane EXCEPT ![p].favorite = shows]
  /\ overtaken' = (overtaken \ {p})
       \cup {q \in Panes \ {p} : changes /\ pane[q].host = pane[p].host}

NewFavorite(f, h) ==
  /\ f \in Of("favorites") /\ row[f].state = "absent"
  /\ row' = [row EXCEPT ![f] = [state |-> "live", refs |-> [host |-> h]]]
  /\ stamped' = {f}
  /\ outdated' = IF Live(h) THEN outdated ELSE outdated \cup {<<f, h>>}

(* A plausible bug: both statements in one transaction, undone by the error. *)
FavoriteInTransaction(p) ==
  LET h == pane[p].host IN
  /\ h # NoRow /\ ~ pane[p].favorite
  /\ \/ FavoritesOf(h) = {} /\ \E f \in Rows : NewFavorite(f, h)
     \/ FavoritesOf(h) # {} /\ stamped' = {} /\ UNCHANGED <<row, outdated>>
  /\ Switched(p, TRUE, FavoritesOf(h) = {})
  /\ UNCHANGED <<table, linked, editor>>

(* INSERT OR IGNORE, ignored where another pane has added the favorite; then *)
(* every row of the directory is made live again.  With an older, deleted   *)
(* one that breaks the unique index and changes nothing, so the new row     *)
(* alone is the favorite.                                                  *)
save_sftp_favorite_path(p) ==
  LET h == pane[p].host
      present == LiveFavorites(h) # {}
  IN
  /\ h # NoRow /\ ~ pane[p].favorite
  /\ \/ ~ present /\ \E f \in Rows : NewFavorite(f, h)
     \/ /\ present /\ UNCHANGED <<row, outdated>>
        /\ stamped' = IF FavoritesOf(h) = LiveFavorites(h) THEN LiveFavorites(h) ELSE {}
  /\ Switched(p, TRUE, ~ present)
  /\ UNCHANGED <<table, linked, editor>>

delete_sftp_favorite_path_by_target(p) ==
  LET h == pane[p].host IN
  /\ h # NoRow /\ pane[p].favorite
  /\ row' = Deleted(row, LiveFavorites(h)) /\ stamped' = LiveFavorites(h)
  /\ Switched(p, FALSE, LiveFavorites(h) # {})
  /\ UNCHANGED <<table, linked, editor, outdated>>

-----------------------------------------------------------------------------

CatalogInit ==
  /\ table \in Catalogs
  /\ row = [r \in Rows |-> [state |-> "absent", refs |-> Unset(table[r])]]
  /\ linked = {} /\ editor = [w \in Windows |-> NoEditor]
  /\ pane = [p \in Panes |-> [host |-> NoRow, favorite |-> FALSE]]
  /\ stamped = {} /\ outdated = {} /\ overtaken = {}

CatalogNext ==
  \/ \E w \in Windows :
       \/ \E r \in Rows : OpenEditor(w, r)
       \/ ChooseReference(w) \/ CloseEditor(w)
       \/ save_group(w) \/ save_key(w) \/ save_identity(w) \/ save_tag(w)
       \/ save_host(w) \/ replace_host_tags(w) \/ save_port_forward(w) \/ save_proxy(w)
       \/ save_snippet_package(w) \/ save_snippet(w)
  \/ \E r \in Rows :
       \/ delete_group(r) \/ delete_key(r) \/ delete_identity(r) \/ delete_tag(r)
       \/ delete_host(r) \/ delete_port_forward(r) \/ delete_proxy(r)
       \/ delete_snippet_package(r) \/ delete_snippet(r)
  \/ \E p \in Panes :
       \/ \E h \in Rows : loadRemoteSftpFavorites(p, h)
       \/ save_sftp_favorite_path(p) \/ delete_sftp_favorite_path_by_target(p)

CatalogSpec == CatalogInit /\ [][CatalogNext]_catalogVars

-----------------------------------------------------------------------------

(* The rows, links and editors are what the tables allow.                  *)
CatalogTypeOK ==
  /\ table \in [Rows -> Tables]
  /\ \A r \in Rows :
       /\ row[r].state \in {"absent", "live", "deleted"}
       /\ DOMAIN row[r].refs = DOMAIN Columns[table[r]]
       /\ \A c \in DOMAIN row[r].refs : row[r].refs[c] \in Of(Columns[table[r]][c]) \cup {NoRow}
  /\ \A l \in linked : <<table[l[1]], table[l[2]]>> \in Links
  /\ \A w \in Windows : editor[w].pc \in {"closed", "editing", "tags"}
  /\ pane \in [Panes -> [host : Of("hosts") \cup {NoRow}, favorite : BOOLEAN]]
  /\ stamped \subseteq Rows /\ outdated \subseteq Rows \X Rows /\ overtaken \subseteq Panes

(* A live row refers, by column or link, to a row that is not live only if *)
(* an editor opened before the deletion saved it afterwards: every delete_ *)
(* of hosts.rs and database.rs clears or deletes all that refers to its    *)
(* row.  Startup snippets are the exception (see delete_snippet).          *)
DeletedIsLetGo ==
  \A r \in Rows : Live(r) =>
    /\ \A c \in DOMAIN row[r].refs :
         row[r].refs[c] = NoRow \/ Live(row[r].refs[c]) \/ <<r, row[r].refs[c]>> \in outdated
           \/ <<table[r], c>> \in StartupSnippets
    /\ \A l \in LinksOf(r) : Live(l[2]) \/ l \in outdated

(* What a merge must carry gets a new stamp in the same statement or       *)
(* transaction: a row's own columns, and a host whose tags a delete takes. *)
ChangesAreStamped ==
  [][/\ \A r \in Rows : row[r] # row'[r] => r \in stamped'
     /\ \A l \in linked \ linked' :
          table[l[1]] = "hosts" => \/ l[1] \in stamped'
                                   \/ \E w \in Windows : editor[w].row = l[1] /\ editor[w].pc = "tags"
    ]_catalogVars

(* What an SFTP pane shows as a favorite of its host is in the database and *)
(* nothing else, though the pane drops the error of a save that brings     *)
(* back a favorite removed before.  It does not learn what another pane or *)
(* the deletion of the host changes before it connects or switches again.  *)
FavoritesAsShown ==
  \A p \in Panes \ overtaken :
    pane[p].host # NoRow => (pane[p].favorite <=> LiveFavorites(pane[p].host) # {})
=============================================================================
