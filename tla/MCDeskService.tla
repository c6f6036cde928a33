----------------------------- MODULE MCDeskService -----------------------------
(***************************************************************************)
(* A deployment that is in order and others that lack one thing each; a    *)
(* server with all the tools under names only a part of which is known,    *)
(* and one whose tools all have a verb that writes.                      *)
(***************************************************************************)
EXTENDS Dashboard

MCCapability == {"get_account", "get_positions"}

MCCandidates == [get_account   |-> <<"get_account_info", "account">>,
                 get_positions |-> <<"get_all_positions", "position">>]

MCTool(name, words, verbs) == [name |-> name, words |-> words, verbs |-> verbs]

MCServerTools ==
    LET update     == MCTool("update_account_config", {"account"}, {"update_"})
        activities == MCTool("get_account_activities", {"account"}, {})
        closeAll   == MCTool("close_all_positions", {"position"}, {"close_"})
        positions  == MCTool("get_all_positions", {"get_all_positions", "position"}, {})
    IN  {<<update, activities, closeAll, positions>>, <<update, closeAll>>}

MCGood == [mode |-> "development", dev |-> "A", judge |-> "B", host |-> Paper,
           account |-> [id |-> "A", level3 |-> TRUE, power |-> TRUE], facts |-> Facts]

MCGoodWorld == {MCGood}

MCWorlds ==
    {MCGood} \cup {[MCGood EXCEPT !.facts = Facts \ {f}] : f \in Facts}
    \cup {[MCGood EXCEPT !.mode = m] : m \in {"unset", "unknown", "judging"}}
    \cup {[MCGood EXCEPT !.host = h] : h \in {NoHost, "other"}}
    \cup {[MCGood EXCEPT !.judge = "A"], [MCGood EXCEPT !.dev = NoId]}
    \cup {[MCGood EXCEPT !.account.id = "B"], [MCGood EXCEPT !.account.level3 = FALSE],
          [MCGood EXCEPT !.account.power = FALSE]}
================================================================================
