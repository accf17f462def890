----------------------------- MODULE MCMetaInfo -----------------------------
EXTENDS MetaInfo, SequencesExt

MCStrs == {"announce", "info", "piece length", "name", "length", "files",
           "pieces", "url", "hashes", "ragged"}
MCWhole == {"hashes"}

\* Every short input over the brackets, the atoms and one illegal token.
Short == BoundedSeq({"d", "l", "e", "int", "url", "bad"}, 5)

Field(key, values) == {<<>>} \cup { <<key, v>> : v \in values }

\* Info dictionaries: each key right, of the wrong type or missing.
Infos ==
    { <<"d">> \o f[1] \o f[2] \o f[3] \o f[4] \o f[5] \o <<"e">> :
        f \in Field("files", {"int"}) \X Field("length", {"int", "url"})
                \X Field("name", {"url", "int"}) \X Field("piece length", {"int"})
                \X Field("pieces", {"hashes", "ragged"}) }

\* Torrent files: info as the last key, in front of another one, given twice,
\* with another object behind the dictionary, without announce.
Files ==
    UNION { { <<"d", "announce", "url", "info">> \o i \o <<"e">>,
              <<"d", "announce", "url", "info">> \o i \o <<"url", "int", "e">>,
              <<"d", "announce", "url", "info">> \o i \o <<"info", "int", "e">>,
              <<"d", "announce", "url", "info">> \o i \o <<"e", "int">>,
              <<"d", "announce", "int", "info">> \o i \o <<"e">>,
              <<"d", "info">> \o i \o <<"e">> } : i \in Infos }
        \cup { <<"d", "announce", "url", "e">>, <<"d", "announce", "url", "info", "int", "e">> }

MCInputs == Short \cup Files
============================================================================
