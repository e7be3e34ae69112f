------------------------------ MODULE MCSession ------------------------------
EXTENDS Session

X0 == <<"x", "a", FALSE>>
X1 == <<"x", "a", TRUE>>
Y0 == <<"y", "a", FALSE>>
Y1 == <<"y", "a", TRUE>>

MCConfigs == {{}, {"keepbroken"}, {"DELETEFILES"}, {"REPLACEFILE"}}

(* Every name may exist; one without the suffix may be an archive as well. *)
MCInits ==
  {f \in [Names -> {Absent} \cup [src : Names, depth : 0..1, whole : {TRUE}]] :
     /\ \A n \in Names : f[n] # Absent => f[n].src = n /\ (n[3] => f[n].depth = 1)
     /\ f[Y0] # Absent => f[Y0].depth = 0
     /\ f[Y1] # Absent => f[X1] # Absent}

MCArgLists == {<<>>, <<DirArg("x")>>, <<X0>>, <<X1>>, <<X0, Y0>>, <<X1, Y1>>, <<Stdin, X0>>, <<X0, Stdin>>}

MCOptions == {<<"c", None>>, <<"d", None>>, <<"D", None>>, <<"f", None>>, <<"i", None>>, <<"k", None>>,
              <<"o", X0>>, <<"o", Stdin>>, <<"O", DirArg("y")>>, <<"r", None>>, <<"t", None>>}
==============================================================================
