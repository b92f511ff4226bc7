------------------------------- MODULE Comments -------------------------------
(***************************************************************************)
(* CommentsSection of the public site, the part of the cache it writes     *)
(* through the page, and the comments the backend keeps.  Whatever the     *)
(* page publishes, the comments themselves included, runs the effects of   *)
(* the section again, and those forget drafts, likes and messages.         *)
(***************************************************************************)
EXTENDS Site, Functions

CONSTANTS MaxComments,     \* bound: comments and replies ever posted
          MaxSectionSteps, \* bound: what the visitor and the page do
          FirstVisible,    \* INITIAL_VISIBLE_COMMENTS
          MoreVisible      \* VISIBLE_COMMENT_STEP

ASSUME CommentsAssumption == MaxComments \in Nat /\ None \notin Nat

VARIABLES section,         \* the signals of the section
          commentCache,    \* the page's cache: the comments of each market
          commentReads,    \* the read of each market in flight, if any, and what
                           \* the backend has answered to it
          commentCalls,    \* posts, replies and likes in flight
          thread,          \* external: the comments of each market
          sectionSteps

sectionVars == <<section, commentCache, commentReads, commentCalls, thread, sectionSteps>>

(***************************************************************************)
(* Comments.  The tree of comments and replies is a sequence of nodes that *)
(* name their parent; a later comment has a greater id.                    *)
(***************************************************************************)
Ids(nodes) == {nodes[i].id : i \in DOMAIN nodes}

Replies(nodes, id) == {i \in DOMAIN nodes : nodes[i].parent = id}

Roots(nodes) == Picked(nodes, {i \in DOMAIN nodes : nodes[i].parent = None})

\* The comment id and what is listed under it, at any depth.
Subtree(nodes, id) ==
    {x \in Ids(nodes) : \A S \in SUBSET (Ids(nodes) \cup {id}) :
        id \in S /\ (\A i \in DOMAIN nodes : nodes[i].parent \in S => nodes[i].id \in S) => x \in S}

\* Mutant of Normalize: two nodes with one id are both kept.
NormalizeAll(nodes) == SortSeq(nodes, LAMBDA a, b : a.id > b.id)

\* normalizeRootComments: of two nodes with one id the later in the list stays,
\* newest first.
Normalize(nodes) ==
    LET last == {i \in DOMAIN nodes :
                    \A j \in DOMAIN nodes : j > i => nodes[j].id # nodes[i].id}
        order == InOrder(last, [i \in last |-> 0 - nodes[i].id])
    IN  [k \in DOMAIN order |-> nodes[order[k]]]

\* updateCommentTree with the answer of a like.
WithLikes(nodes, id, likes) ==
    [i \in DOMAIN nodes |-> IF nodes[i].id = id THEN [nodes[i] EXCEPT !.likes = likes]
                            ELSE nodes[i]]

\* insertReplyIntoTree: a reply that is known already is replaced, with all that is
\* under it; the parent counts at least the replies it lists.
WithReply(nodes, parent, reply) ==
    LET known  == reply.id \in Ids(nodes)
        others == Picked(nodes, {i \in DOMAIN nodes :
                                    nodes[i].id \notin Subtree(nodes, reply.id)})
        counted(n) == LET listed == Cardinality(Replies(others, parent)) + 1
                          count  == IF known THEN n.replies ELSE n.replies + 1
                      IN  [n EXCEPT !.replies = IF listed > count THEN listed ELSE count]
    IN  IF parent \notin Ids(nodes) THEN nodes
        ELSE Append([i \in DOMAIN others |-> IF others[i].id = parent
                                             THEN counted(others[i]) ELSE others[i]], reply)

(***************************************************************************)
(* The section.                                                            *)
(***************************************************************************)
\* The effects that follow the market the page shows and its comments.
Reset(s, m, nodes) ==
    [s EXCEPT !.market = m, !.comments = Normalize(nodes), !.draft = FALSE,
              !.visible = FirstVisible, !.replyTo = None, !.replyDrafts = {},
              !.replying = None, !.liked = {}, !.liking = {}, !.message = None]

SectionInit ==
    /\ \E m \in Market, signed \in BOOLEAN :
          section = [market |-> m, comments |-> <<>>, draft |-> FALSE,
                     visible |-> FirstVisible, submitting |-> FALSE, replyTo |-> None,
                     replyDrafts |-> {}, replying |-> None, liked |-> {}, liking |-> {},
                     message |-> None, signed |-> signed]
    /\ commentCache = [m \in Market |-> Absent]
    /\ commentReads = [m \in Market |-> IF m = section.market THEN Absent ELSE None]
    /\ commentCalls = {}
    /\ thread = [m \in Market |-> <<>>]
    /\ sectionSteps = 0

SectionStep == sectionSteps < MaxSectionSteps /\ sectionSteps' = sectionSteps + 1

Cached(m) == IF commentCache[m] = Absent THEN <<>> ELSE commentCache[m]

\* What each comment lets the visitor do.
CommentView(n) ==
    [liked    |-> n.id \in section.liked,
     busy     |-> n.id \in section.liking,
     replies  |-> LET listed == Cardinality(Replies(section.comments, n.id))
                  IN  IF n.replies > listed THEN n.replies ELSE listed,
     composer |-> section.replyTo = n.id,
     canReply |-> section.replying # n.id /\ n.id \in section.replyDrafts]

\* The comments listed, and whether the composer can be sent and more be shown.
SectionView ==
    LET roots == Roots(section.comments) IN
    [listed  |-> SubSeq(roots, 1, IF section.visible < Len(roots)
                                  THEN section.visible ELSE Len(roots)),
     more    |-> section.visible < Len(roots),
     canPost |-> ~section.submitting /\ section.draft]

\* The nodes a visitor sees: the listed comments and the replies under them.
Seen == {n \in ToSet(section.comments) :
            \E r \in ToSet(SectionView.listed) : n.id \in Subtree(section.comments, r.id)}

\* The page comes to show m, or shows the same market again.
SectionPublished(m) ==
    /\ SectionStep
    /\ section' = Reset(section, m, Cached(m))
    /\ commentReads' = IF commentCache[m] = Absent /\ commentReads[m] = None
                       THEN [commentReads EXCEPT ![m] = Absent] ELSE commentReads
    /\ UNCHANGED <<commentCache, commentCalls, thread>>

\* External: the backend answers the read of m with the comments it has.
ReadServed(m) ==
    /\ commentReads[m] = Absent
    /\ commentReads' = [commentReads EXCEPT ![m] = thread[m]]
    /\ UNCHANGED <<section, commentCache, commentCalls, thread, sectionSteps>>

\* The answer is cached over what was cached meanwhile, and shown if the page
\* shows m.
CommentsRead(m) ==
    /\ commentReads[m] \notin {None, Absent}
    /\ commentCache' = [commentCache EXCEPT ![m] = commentReads[m]]
    /\ commentReads' = [commentReads EXCEPT ![m] = None]
    /\ section' = IF section.market = m THEN Reset(section, m, commentReads[m]) ELSE section
    /\ UNCHANGED <<commentCalls, thread, sectionSteps>>

SessionChanged ==
    /\ SectionStep
    /\ section' = [section EXCEPT !.signed = ~@]
    /\ UNCHANGED <<commentCache, commentReads, commentCalls, thread>>

\* handleDraftInput, and the input of a reply.
TypeDraft ==
    /\ SectionStep
    /\ ~section.draft
    /\ section' = [section EXCEPT !.draft = TRUE, !.message = None]
    /\ UNCHANGED <<commentCache, commentReads, commentCalls, thread>>

TypeReply(n) ==
    /\ SectionStep
    /\ CommentView(n).composer
    /\ n.id \notin section.replyDrafts
    /\ section' = [section EXCEPT !.replyDrafts = @ \cup {n.id}, !.message = None]
    /\ UNCHANGED <<commentCache, commentReads, commentCalls, thread>>

\* openReplyComposer and closeReplyComposer.
ChooseReply(id) ==
    /\ SectionStep
    /\ id # section.replyTo
    /\ section' = [section EXCEPT !.replyTo = id,
                                  !.message = IF id = None THEN @ ELSE None]
    /\ UNCHANGED <<commentCache, commentReads, commentCalls, thread>>

ShowMoreComments ==
    /\ SectionStep
    /\ SectionView.more
    /\ section' = [section EXCEPT !.visible =
                      IF @ + MoreVisible < Len(section.comments)
                      THEN @ + MoreVisible ELSE Len(section.comments)]
    /\ UNCHANGED <<commentCache, commentReads, commentCalls, thread>>

\* ensureAuthenticated: a visitor who is not signed in is asked to be.
AskToSignIn == /\ ~section.signed
               /\ section' = [section EXCEPT !.message = "error"]
               /\ UNCHANGED commentCalls

CommentCall(kind, id) == [kind |-> kind, market |-> section.market, id |-> id,
                   step |-> sectionSteps, answer |-> Absent]

\* handleSubmit, handleReplySubmit and handleLikeToggle up to their await.
SubmitComment ==
    /\ SectionStep
    /\ SectionView.canPost
    /\ \/ AskToSignIn
       \/ /\ section.signed
          /\ section' = [section EXCEPT !.submitting = TRUE, !.message = None]
          /\ commentCalls' = commentCalls \cup {CommentCall("post", None)}
    /\ UNCHANGED <<commentCache, commentReads, thread>>

SubmitReply(n) ==
    /\ SectionStep
    /\ CommentView(n).composer /\ CommentView(n).canReply
    /\ \/ AskToSignIn
       \/ /\ section.signed
          /\ section' = [section EXCEPT !.replying = n.id, !.message = None]
          /\ commentCalls' = commentCalls \cup {CommentCall("reply", n.id)}
    /\ UNCHANGED <<commentCache, commentReads, thread>>

ToggleLike(n) ==
    /\ SectionStep
    /\ ~CommentView(n).busy
    /\ \/ AskToSignIn
       \/ /\ section.signed
          /\ section' = [section EXCEPT !.liking = @ \cup {n.id}]
          /\ commentCalls' = commentCalls \cup
                {CommentCall(IF CommentView(n).liked THEN "unlike" ELSE "like", n.id)}
    /\ UNCHANGED <<commentCache, commentReads, thread>>

\* External: a later comment has a greater id.
Kept == UNION {Ids(thread[m]) : m \in Market}

NextIds == {id \in 1 .. MaxComments : \A k \in 1 .. MaxComments : k < id <=> k \in Kept}

CallsAnswered(call, answer) == (commentCalls \ {call}) \cup {[call EXCEPT !.answer = answer]}

\* External: the backend keeps a new comment, or a reply to one of the same market.
CommentServed(call) ==
    /\ call.kind \in {"post", "reply"}
    /\ call.kind = "reply" => call.id \in Ids(thread[call.market])
    /\ \E id \in NextIds :
          LET new == [id |-> id, parent |-> call.id, likes |-> 0, replies |-> 0]
          IN  /\ thread' = [thread EXCEPT ![call.market] =
                    IF call.kind = "post" THEN Append(@, new) ELSE WithReply(@, call.id, new)]
              /\ commentCalls' = CallsAnswered(call, new)

\* External: the backend keeps one like of each user, whatever market is shown.
LikeServed(call) ==
    LET likes == IF call.kind = "like" THEN 1 ELSE 0 IN
    /\ call.kind \in {"like", "unlike"}
    /\ thread' = [m \in Market |-> WithLikes(thread[m], call.id, likes)]
    /\ commentCalls' = CallsAnswered(call, likes)

CallServed(call) ==
    /\ call.answer = Absent
    /\ CommentServed(call) \/ LikeServed(call)
    /\ UNCHANGED <<section, commentCache, commentReads, sectionSteps>>

\* publishComments: the list goes to the cache and back through the page, for
\* the market the page shows by now.
Publish(s, nodes) == Reset(s, s.market, nodes)

\* The finally blocks.
Finished(s, call) ==
    CASE call.kind = "post"  -> [s EXCEPT !.submitting = FALSE]
      [] call.kind = "reply" -> [s EXCEPT !.replying = None]
      [] OTHER               -> [s EXCEPT !.liking = @ \ {call.id}]

\* The handlers after their await.
CallAnswered(call) ==
    LET nodes == section.comments
        shown == CASE call.kind = "post"  -> <<call.answer>> \o nodes
                   [] call.kind = "reply" -> WithReply(nodes, call.id, call.answer)
                   [] OTHER               -> WithLikes(nodes, call.id, call.answer)
        published == Publish(section, shown)
        told == IF call.kind \in {"post", "reply"}
                THEN [published EXCEPT !.message = "status"] ELSE published
    IN  /\ call.answer # Absent
        /\ commentCalls' = commentCalls \ {call}
        /\ section' = Finished(told, call)
        /\ commentCache' = [commentCache EXCEPT ![section.market] = published.comments]
        /\ UNCHANGED <<commentReads, thread, sectionSteps>>

\* The request fails, before or after the backend has acted on it.
CallFailed(call) ==
    /\ commentCalls' = commentCalls \ {call}
    /\ section' = Finished([section EXCEPT !.message = "error"], call)
    /\ UNCHANGED <<commentCache, commentReads, thread, sectionSteps>>

SectionVisitor ==
    \/ \E m \in Market : SectionPublished(m)
    \/ SessionChanged
    \/ TypeDraft
    \/ ShowMoreComments
    \/ SubmitComment
    \/ \E n \in Seen : TypeReply(n) \/ ChooseReply(n.id) \/ SubmitReply(n) \/ ToggleLike(n)
    \/ ChooseReply(None)

SectionAnswer ==
    \/ \E m \in Market : ReadServed(m) \/ CommentsRead(m)
    \/ \E call \in commentCalls : CallServed(call) \/ CallAnswered(call) \/ CallFailed(call)

SectionNext == SectionVisitor \/ SectionAnswer

SectionSpec == SectionInit /\ [][SectionNext]_sectionVars

\* However the visitor moves between markets while a comment is being posted,
\* the section has at most one comment on its way: the same draft cannot be
\* sent twice.
OneCommentAtATime ==
    Cardinality({call \in commentCalls : call.kind = "post"})
        = (IF section.submitting THEN 1 ELSE 0)

\* A comment that was both read and answered to the one who posted it is listed
\* once, and no comment counts fewer replies than are listed under it.
EveryCommentOnce ==
    /\ IsInjective([i \in DOMAIN section.comments |-> section.comments[i].id])
    /\ \A n \in ToSet(section.comments) :
          Cardinality(Replies(section.comments, n.id)) <= n.replies
=============================================================================
