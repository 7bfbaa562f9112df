SPECIFICATION Spec
CHECK_DEADLOCK FALSE
CONSTANTS
  Sale = {1, 2, 3}
  Title = {1, 2, 3}
  Term <- MCTerm
  IsLong <- MCIsLong
  Starting <- MCStarting
  Containing <- MCContaining
  Catalogues <- MCCatalogues
  Sort = {"price_asc", "price_desc", "newest", "oldest"}
  Number = {0, 1, 2, 3}
  DefaultLimit = 2
  MaxLimit = 2
  DefaultRecommended = 2
  MaxRecommended = 2
INVARIANTS SearchPagesPartition ListingsInOrder VariantsOnce RecommendationsRepeat
