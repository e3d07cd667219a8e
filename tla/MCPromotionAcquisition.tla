------------------------ MODULE MCPromotionAcquisition ------------------------
EXTENDS PromotionAcquisition

\* The object is overwritten and put back; the local file is edited and
\* put back.
MCVersions == <<"signed", "other", "signed">>
\* A source with an ETag; ones that show more, which are overwritten once, as
\* every version makes a plan of its own; one without a validator, accepted as
\* such, or refused while the acquisition may do without it.
MCCases ==
  {<<"etag", {"validator", "remote"}, 1>>}
    \cup {<<v, {"validator", "remote"}, 2>> : v \in {"dated", "versioned", "modified"}}
    \cup {<<"none", {"remote"}, 1>>, <<"none", {"validator"}, 1>>}
MCLocalVersions == <<"signed", "other", "signed">>
=============================================================================
