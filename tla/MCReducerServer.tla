--------------------------- MODULE MCReducerServer ---------------------------
EXTENDS ReducerServer

MCSenders == {"s1", "s2", "s3"}
MCTags == {"t1", "t2"}
MCJobSenders == <<{"s1", "s2"}, {"s3"}>>
MCGroups == [s \in MCSenders |->
               CASE s = "s1" -> << <<"t1", 1>>, <<"t2", 1>> >>
                 [] s = "s2" -> << <<"t1", 1>> >>
                 [] s = "s3" -> << <<"t2", 1>>, <<"t1", 1>> >>]
=============================================================================
