----------------------------- MODULE MCCharset -----------------------------
EXTENDS Charset

MCCell == {"author", "nickname", "question"}
MCTable == {"posts", "admins", "questions"}
MCTableOf == [c \in MCCell |-> CASE c = "author" -> "posts" [] c = "nickname" -> "admins"
                                 [] c = "question" -> "questions"]
MCScript == <<"author", "nickname">>
=============================================================================
