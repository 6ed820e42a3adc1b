------------------------------ MODULE MCParser ------------------------------
EXTENDS Parser

MCChunks == {<<"Host(">>, <<"HostSNI(">>, <<")">>, <<"tick">>, <<"tick", "App", "tick">>,
             <<"#">>, <<"newline">>, <<"tick", "web", "$SET", "$UNSET", "tick">>,
             <<"tick", "web", "#", "$SET", "tick">>}
MCVars == {"$SET", "$UNSET"}
MCEnv == [v \in MCVars |-> IF v = "$SET" THEN <<".Net">> ELSE <<>>]
MCLower == [t \in {"App", ".Net"} |-> IF t = "App" THEN "app" ELSE ".net"]
=============================================================================
