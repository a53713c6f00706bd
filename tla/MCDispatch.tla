----------------------------- MODULE MCDispatch -----------------------------
(* Instances of Dispatch for TLC. *)
EXTENDS Dispatch

Skilled == {"paving", "patching"}
NeedsOf == [d \in Department |-> IF d = "ROADS" THEN [tags |-> Skilled, tools |-> {"roller"}]
                                 ELSE [tags |-> {"collections"}, tools |-> {}]]

Expert == [crew |-> "PW", ward |-> "north", tags |-> Skilled, tools |-> {"roller"}, limit |-> 1, km |-> 2]
Novice == [crew |-> "PW", ward |-> None, tags |-> {"patching"}, tools |-> {}, limit |-> None, km |-> 9]
Sweeper == [crew |-> "SN", ward |-> "north", tags |-> {"collections"}, tools |-> {}, limit |-> 0, km |-> 15]
Remote == [crew |-> "PW", ward |-> "north", tags |-> {}, tools |-> {}, limit |-> None, km |-> 30]
Unhoused == [crew |-> "PW", ward |-> None, tags |-> Skilled, tools |-> {"roller"}, limit |-> None, km |-> None]
Crewless == [Expert EXCEPT !.crew = None]
RosterSamples ==
  {<<Expert, Remote>>, <<Novice, [Novice EXCEPT !.km = 1]>>, <<Sweeper, Unhoused>>, <<Crewless, Novice>>}

Pothole == [category |-> "ROAD", fallen |-> FALSE, ward |-> "north", located |-> TRUE]
ComplaintSamples ==
  {Pothole, [Pothole EXCEPT !.category = "GENERAL"],
   [category |-> "ELECTRICITY", fallen |-> TRUE, ward |-> None, located |-> FALSE]}
=============================================================================
