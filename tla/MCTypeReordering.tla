-------------------------- MODULE MCTypeReordering --------------------------
(* Blocks of three declarations: a struct, a typedef of a struct and a union *)
(* or a function, in every pattern of pointers and values between them, and *)
(* a struct that a typedef names again.                                     *)
EXTENDS TypeReordering

MCNames == 1..3

Struct(i) == << <<"struct", i>> >>
Union(i) == << <<"union", i>> >>
Both(i) == << <<"typedef", i>>, <<"struct", i>> >>
Typedef(i) == << <<"typedef", i>> >>
None == <<>>

\* How a field of chunk i names the type of chunk j: by its first or last name.
Mention(names, i, j) ==
  IF names[j] = None THEN <<"struct", j>>
  ELSE IF i < j THEN names[j][1] ELSE names[j][Len(names[j])]

\* The fields of chunk i, in the order of the types they mention.
Fields(names, i, how) ==
  LET mentioned == SelectSeq(<<1, 2, 3>>, LAMBDA j : how[j] # "no")
  IN [f \in 1..Len(mentioned) |->
        [type |-> Mention(names, i, mentioned[f]),
         aggreg |-> how[mentioned[f]] = "value"]]

Hows(i) ==
  {how \in [1..3 -> {"no", "pointer", "value"}] :
     how[i] # "value" /\ (i # 1 => how[i] = "no")}

Block(names, hows) ==
  [i \in 1..3 |-> [names |-> names[i],
                   deps |-> IF names[i] = None THEN <<>> ELSE Fields(names, i, hows[i])]]

\* struct data, typedef struct data t_data, and a struct that has one of them.
NamedAgain ==
  {<< [names |-> Struct(1), deps |-> <<>>],
      [names |-> << <<"typedef", 2>>, <<"struct", 1>> >>, deps |-> <<>>],
      [names |-> Struct(3),
       deps |-> << [type |-> t, aggreg |-> TRUE] >>] >> :
     t \in {<<"struct", 1>>, <<"typedef", 2>>}}

MCSources ==
  NamedAgain \union
  {Block(<<a, b, c>>, <<h, k, l>>) :
     a \in {Struct(1), Both(1)}, b \in {Both(2), Typedef(2)},
     c \in {Union(3), Struct(3), None}, h \in Hows(1), k \in Hows(2), l \in Hows(3)}
=============================================================================
