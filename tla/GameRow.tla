------------------------------- MODULE GameRow -------------------------------
(***************************************************************************)
(* Tables game_list, game_version_manage and device_game.  game_list has   *)
(* no unique index: two requests may both insert a row for one game.  Of   *)
(* device_game the newest version is here; current_version and need_update *)
(* belong to the update a device goes through (DeviceStatus).              *)
(***************************************************************************)
EXTENDS Naturals, FiniteSetsExt

CONSTANTS Game,
          GameVersion,
          NoVersion      \* stands for a row that is not there

ASSUME GameAssumption == /\ NoVersion \notin GameVersion
                         /\ Game # {} /\ IsFiniteSet(Game)

VARIABLES listed,        \* listed[g]: the rows of g in game_list
          lastId,        \* the newest id of game_list
          versions,      \* the rows of game_version_manage
          games          \* games[d][g]: newest_version of g for device d

gameVars == <<listed, lastId, versions, games>>

ListRow == [id : Nat, ver : GameVersion]
NoGames == [g \in Game |-> NoVersion]

(* GameList.query.filter_by(game=g).first() *)
FirstRow(g) == IF listed[g] = {} THEN 0 ELSE Min({r.id : r \in listed[g]})
HasRow(g, id) == \E r \in listed[g] : r.id = id

(* get_game_list: every row; it is gone through by id *)
ListEntry == [id : Nat, game : Game, ver : GameVersion]
GameList == UNION {{[id |-> r.id, game |-> g, ver |-> r.ver] : r \in listed[g]} : g \in Game}
First(l) == CHOOSE e \in l : \A f \in l : e.id <= f.id

InsertList(g, v) ==
    /\ lastId' = lastId + 1
    /\ listed' = [listed EXCEPT ![g] = @ \cup {[id |-> lastId + 1, ver |-> v]}]
    /\ UNCHANGED <<versions, games>>

UpdateList(g, id, v) ==
    /\ HasRow(g, id)
    /\ listed' = [listed EXCEPT
                    ![g] = {IF r.id = id THEN [r EXCEPT !.ver = v] ELSE r : r \in @}]
    /\ UNCHANGED <<lastId, versions, games>>

DeleteList(g, id) ==
    /\ listed' = [listed EXCEPT ![g] = {r \in @ : r.id # id}]
    /\ UNCHANGED <<lastId, versions, games>>

InsertVersion(g, v) ==
    /\ <<g, v>> \notin versions
    /\ versions' = versions \cup {<<g, v>>}
    /\ UNCHANGED <<listed, lastId, games>>

DeleteVersions(gone) ==
    /\ versions' = versions \ gone
    /\ UNCHANGED <<listed, lastId, games>>

MayAddGame(d, g, seen) == (seen = NoVersion) = (games[d][g] = NoVersion)

(* Mutation of AddGame: a row that is there already is kept *)
AddGame_insertOnly(d, g, v, seen) ==
    /\ MayAddGame(d, g, seen)
    /\ games' = IF seen = NoVersion THEN [games EXCEPT ![d][g] = v] ELSE games
    /\ UNCHANGED <<listed, lastId, versions>>

(* DeviceGameService.add with the row it saw: an INSERT that name_index_key *)
(* may refuse, or an UPDATE, of what differs, that may meet no row          *)
AddGame(d, g, v, seen) ==
    /\ MayAddGame(d, g, seen)
    /\ games' = IF seen = v THEN games ELSE [games EXCEPT ![d][g] = v]
    /\ UNCHANGED <<listed, lastId, versions>>

(* DeviceGameService.delete; a row already gone is no error *)
DeleteGame(d, g) ==
    /\ games' = [games EXCEPT ![d][g] = NoVersion]
    /\ UNCHANGED <<listed, lastId, versions>>
=============================================================================
